---- MODULE Spec2Model ----
(***************************************************************************)
(* The transform service of psx-etl (services/transform/app.py): the       *)
(* /transform handler transform_data and the phases it calls, modelled as   *)
(* a state machine over one request.                                        *)
(*                                                                          *)
(* Python values are records [k |-> kind, v |-> payload]:                   *)
(*   none            None                                                   *)
(*   int             a Python int, v the integer                            *)
(*   bool            True or False, v the integer it is (1 or 0)            *)
(*   float           a finite float, v the number in units of 10^-5         *)
(*   bigint,         an int or a float that is v * 10^9 (a market            *)
(*   bigfloat        capitalisation), beyond the range of the other two      *)
(*   nan, inf, ninf  the non-finite floats                                  *)
(*   real            a finite float whose digits are not computed: v names  *)
(*                   the statistic and the returns it is taken of           *)
(*   str             a string, v the sequence of its characters             *)
(*   timestamp       the ISO string of the clock reading v                  *)
(*   date            a date string, v = <<day, form>> (see DateForms)       *)
(*   dict            a mapping, v the function (an element of raw_data)     *)
(*   list            a list, v the sequence                                 *)
(* A dict is a function from its keys to values; a key that is absent is    *)
(* not in its DOMAIN.  A list is a sequence.                                *)
(*                                                                          *)
(* The last section models the scheduler service                            *)
(* (services/scheduler/app.py): its job_status and the executions of        *)
(* trigger_data_update, in the variables job_status and runs.               *)
(***************************************************************************)
EXTENDS Integers, Sequences, FiniteSets, TLC

VARIABLES data, config, pc, records, response, now, calls, first_response,
          job_status, runs

vars == <<data, config, pc, records, response, now, calls, first_response,
          job_status, runs>>

\* the scheduler service is another process: nothing of the transform
\* service touches its job_status or the executions of its update function
scheduler_vars == <<job_status, runs>>

\* job_status as the module creates it (scheduler/app.py), no execution begun
JobStatusAtImport ==
    [last_run |-> 0, status |-> "initialized", runs_count |-> 0,
     errors |-> <<>>]

----------------------------------------------------------------------------
(* Values *)

None == [k |-> "none", v |-> 0]
NaN == [k |-> "nan", v |-> 0]
PosInf == [k |-> "inf", v |-> 0]
NegInf == [k |-> "ninf", v |-> 0]
PyInt(n) == [k |-> "int", v |-> n]
\* True and False, with the integer they are as payload
PyBool(b) == [k |-> "bool", v |-> IF b THEN 1 ELSE 0]
PyFloat(n) == [k |-> "float", v |-> n]
BigInt(n) == [k |-> "bigint", v |-> n]
BigFloat(n) == [k |-> "bigfloat", v |-> n]
Str(s) == [k |-> "str", v |-> s]
DateStr(day, form) == [k |-> "date", v |-> <<day, form>>]
Dict(d) == [k |-> "dict", v |-> d]
List(l) == [k |-> "list", v |-> l]

\* one unit of a float payload is 10^-5
Unit == 10 ^ 5

Real(name, args) == [k |-> "real", v |-> <<name, args>>]
Timestamp(t) == [k |-> "timestamp", v |-> t]

FloatKinds == {"float", "nan", "inf", "ninf", "real"}
IsFloat(x) == x.k \in FloatKinds
IsNumber(x) == x.k \in {"int", "bigint", "bigfloat"} \/ IsFloat(x)
IsFinite(x) == x.k \in {"int", "float", "bigint", "bigfloat", "real"}

\* the float a number stands for: int n is n.0
AsFloat(x) ==
    IF x.k = "int" THEN PyFloat(x.v * Unit)
    ELSE IF x.k = "bigint" THEN BigFloat(x.v)
    ELSE x

Abs(n) == IF n < 0 THEN -n ELSE n
Sign(n) == IF n < 0 THEN -1 ELSE IF n > 0 THEN 1 ELSE 0

\* a / b rounded to the nearest integer, ties to even (b > 0)
RoundDiv(a, b) ==
    LET q == Abs(a) \div b
        r == Abs(a) % b
        up == (2 * r > b) \/ (2 * r = b /\ q % 2 = 1)
    IN  Sign(a) * (IF up THEN q + 1 ELSE q)

\* round(x, 4) on a payload in units of 10^-5
Round4(n) == 10 * RoundDiv(n, 10)

\* Comparisons of floats as IEEE does them: anything with NaN is false.
FLt(a, b) ==
    CASE a.k = "nan" \/ b.k = "nan" -> FALSE
      [] a.k = "inf" -> FALSE
      [] b.k = "ninf" -> FALSE
      [] a.k = "ninf" -> TRUE
      [] b.k = "inf" -> TRUE
      [] OTHER -> a.v < b.v
FEq(a, b) ==
    CASE a.k = "nan" \/ b.k = "nan" -> FALSE
      [] a.k = "float" /\ b.k = "float" -> a.v = b.v
      [] OTHER -> a.k = b.k
FLe(a, b) == FLt(a, b) \/ FEq(a, b)

Zero == PyFloat(0)

\* Python truthiness: bool(x)
Truthy(x) ==
    CASE x.k = "none" -> FALSE
      [] x.k = "int" -> x.v # 0
      [] x.k \in {"float", "bigint", "bigfloat"} -> x.v # 0
      [] x.k = "str" -> Len(x.v) > 0
      [] OTHER -> TRUE

\* dict.get(key, default)
Get(d, key, default) == IF key \in DOMAIN d THEN d[key] ELSE default

\* d.update(e): the keys of e override
Update(d, e) ==
    [key \in DOMAIN d \cup DOMAIN e |-> IF key \in DOMAIN e THEN e[key] ELSE d[key]]

EmptyDict == [key \in {} |-> None]

----------------------------------------------------------------------------
(* Strings: str(), strip(), upper() and re.match(r'^[A-Z]{1,5}$') *)

UpperCase == {"A", "B", "F", "L", "M", "N", "O", "P", "S", "T", "E"}
UpperOf(c) ==
    CASE c = "a" -> "A" [] c = "p" -> "P" [] c = "l" -> "L" [] c = "m" -> "M"
      [] c = "s" -> "S" [] c = "f" -> "F" [] c = "t" -> "T" [] c = "o" -> "O"
      [] c = "n" -> "N" [] c = "e" -> "E" [] c = "b" -> "B"
      [] OTHER -> c
IsSpace(c) == c = " "

RECURSIVE LStrip(_)
LStrip(s) == IF s # <<>> /\ IsSpace(Head(s)) THEN LStrip(Tail(s)) ELSE s
RECURSIVE RStrip(_)
RStrip(s) ==
    IF s # <<>> /\ IsSpace(s[Len(s)]) THEN RStrip(SubSeq(s, 1, Len(s) - 1)) ELSE s
Strip(s) == RStrip(LStrip(s))
Upper(s) == [i \in 1..Len(s) |-> UpperOf(s[i])]

\* str(x) for the values a Ticker can hold
StrOf(x) ==
    CASE x.k = "str" -> x.v
      [] x.k = "none" -> <<"N", "o", "n", "e">>
      [] x.k = "int" -> <<"0">>
      [] OTHER -> <<"?">>

\* re.match(r'^[A-Z]{1,5}$', s) on a stripped string
MatchesSymbol(s) ==
    /\ Len(s) >= 1
    /\ Len(s) <= 5
    /\ \A i \in 1..Len(s) : s[i] \in UpperCase

----------------------------------------------------------------------------
(* Date strings.  v = <<day, form>>; the forms are                         *)
(*   date       2024-01-0d                  no "T"                          *)
(*   time       2024-01-0dT00:00:00         a "T", no zone                  *)
(*   zulu       2024-01-0dT00:00:00Z        ends with "Z"                   *)
(*   offset     2024-01-0dT00:00:00+05:00   a zone offset                   *)
(*   offsetZ    2024-01-0dT00:00:00+05:00Z  what appending "Z" to it gives  *)

DateForms == {"date", "time", "zulu", "offset", "offsetZ"}
HasT(form) == form # "date"
EndsWithZ(form) == form \in {"zulu", "offsetZ"}
\* date_str += "T00:00:00Z"
AppendMidnightZ(form) == "zulu"
\* date_str += "Z"
AppendZ(form) == IF form = "time" THEN "zulu" ELSE "offsetZ"

\* the order of the strings: the day first, then the shorter suffix first
FormRank(form) ==
    CASE form = "date" -> 0 [] form = "time" -> 1 [] form = "offset" -> 2
      [] form = "offsetZ" -> 3 [] form = "zulu" -> 4

\* sorted(key=Date) compares the strings
DateLt(a, b) ==
    \/ a.v[1] < b.v[1]
    \/ a.v[1] = b.v[1] /\ FormRank(a.v[2]) < FormRank(b.v[2])

----------------------------------------------------------------------------
(* Conversions used by clean_and_standardize *)

\* float(x) raises TypeError (None, a mapping) or ValueError (text)
FloatFails(x) == ~IsNumber(x)
\* float(x) otherwise
FloatOf(x) == AsFloat(x)

\* int(x) raises TypeError (None) or ValueError (text, NaN): caught by the handler
IntFails(x) == x.k \notin {"int", "float", "inf", "ninf"}
\* int(x) raises OverflowError (an infinity): not among the caught exceptions
IntOverflows(x) == x.k \in {"inf", "ninf"}
\* int(x) otherwise: truncation towards zero
IntOf(x) == IF x.k = "int" THEN x.v ELSE Sign(x.v) * (Abs(x.v) \div Unit)

\* round(x, 4) of a float; round() leaves the non-finite floats as they are
RoundFloat(x) == IF x.k = "float" THEN PyFloat(Round4(x.v)) ELSE x

RequiredKeys == {"Open", "High", "Low", "Close", "Volume"}
PriceKeys == {"Open", "High", "Low", "Close"}
PassThroughKeys ==
    {"marketCap", "trailingPE", "forwardPE", "dividendYield", "dividendRate",
     "averageVolume", "previousClose"}

\* `key in record` raises TypeError when record is no container
NotIterable(el) == el.k \in {"none", "int"} \cup FloatKinds

\* all(key in record for key in [...])
HasRequiredKeys(el) == el.k = "dict" /\ RequiredKeys \subseteq DOMAIN el.v

\* ticker = str(record.get("Ticker", "")).strip().upper()
TickerOf(d) == Upper(Strip(StrOf(Get(d, "Ticker", Str(<<>>)))))

\* the date block: "ok" with the new value, or "skip" when the bare except fires
DateOutcome(d) ==
    LET date_str == Get(d, "Date", Str(<<>>))
    IN  IF date_str.k = "date"
        THEN [o |-> "ok",
              val |-> IF ~HasT(date_str.v[2])
                      THEN DateStr(date_str.v[1], AppendMidnightZ(date_str.v[2]))
                      ELSE IF ~EndsWithZ(date_str.v[2])
                      THEN DateStr(date_str.v[1], AppendZ(date_str.v[2]))
                      ELSE date_str]
        ELSE IF Truthy(date_str) THEN [o |-> "skip", val |-> date_str]
        ELSE [o |-> "ok", val |-> date_str]

\* the body of the loop of clean_and_standardize for one element:
\* "ok" (appended, rec is the cleaned record), "skip" (continue) or "raise"
\* (an exception leaves clean_and_standardize)
CleanRecord(el) ==
    LET d == el.v
        skip == [o |-> "skip", rec |-> EmptyDict]
        raise == [o |-> "raise", rec |-> EmptyDict]
        ticker == TickerOf(d)
        open_price == FloatOf(d["Open"])
        high_price == FloatOf(d["High"])
        low_price == FloatOf(d["Low"])
        close_price == FloatOf(d["Close"])
        volume == IntOf(d["Volume"])
        date == DateOutcome(d)
        dividend == Get(d, "Dividend", Zero)
    IN  IF NotIterable(el) THEN raise
        ELSE IF ~HasRequiredKeys(el) THEN skip
        ELSE IF ticker = <<>> \/ ~MatchesSymbol(ticker) THEN skip
        ELSE IF \E key \in PriceKeys : FloatFails(d[key]) THEN skip
        ELSE IF IntOverflows(d["Volume"]) THEN raise
        ELSE IF IntFails(d["Volume"]) THEN skip
        ELSE IF \E p \in {open_price, high_price, low_price, close_price} :
                    FLe(p, Zero) THEN skip
        ELSE IF volume < 0 THEN skip
        ELSE IF ~(/\ FLe(low_price, open_price) /\ FLe(open_price, high_price)
                  /\ FLe(low_price, close_price) /\ FLe(close_price, high_price))
             THEN skip
        ELSE IF date.o = "skip" THEN skip
        ELSE IF FloatFails(dividend) THEN skip
        ELSE [o |-> "ok",
              rec |-> [key \in {"Ticker", "Date", "Open", "High", "Low", "Close",
                                "Volume", "Dividend", "industry", "sector"}
                               \cup PassThroughKeys |->
                        CASE key = "Ticker" -> Str(ticker)
                          [] key = "Date" -> date.val
                          [] key = "Open" -> RoundFloat(open_price)
                          [] key = "High" -> RoundFloat(high_price)
                          [] key = "Low" -> RoundFloat(low_price)
                          [] key = "Close" -> RoundFloat(close_price)
                          [] key = "Volume" -> PyInt(volume)
                          [] key = "Dividend" -> FloatOf(dividend)
                          [] key \in {"industry", "sector"} -> Get(d, key, Str(<<>>))
                          [] OTHER -> Get(d, key, None)]]

\* clean_and_standardize raises when some element does
CleanRaises(raw_records) ==
    \E i \in 1..Len(raw_records) : CleanRecord(raw_records[i]).o = "raise"

RECURSIVE clean_and_standardize(_)
clean_and_standardize(raw_records) ==
    IF raw_records = <<>> THEN <<>>
    ELSE LET c == CleanRecord(Head(raw_records))
             rest == clean_and_standardize(Tail(raw_records))
         IN  IF c.o = "ok" THEN <<c.rec>> \o rest ELSE rest

----------------------------------------------------------------------------
(* safe_float and ensure_json_serializable *)

\* float(s) of a string: the decimal digits of s as a float in units of
\* 10^-5, "nan", "inf" and "-inf" as the non-finite floats; anything else is
\* a ValueError
DigitChars == <<"0", "1", "2", "3", "4", "5", "6", "7", "8", "9">>
IsDigit(c) == \E d \in 1..10 : DigitChars[d] = c
DigitValue(c) == (CHOOSE d \in 1..10 : DigitChars[d] = c) - 1

RECURSIVE DigitsValue(_)
\* the number a string of digits writes
DigitsValue(s) ==
    IF s = <<>> THEN 0
    ELSE 10 * DigitsValue(SubSeq(s, 1, Len(s) - 1)) + DigitValue(s[Len(s)])

AllDigits(s) == \A i \in 1..Len(s) : IsDigit(s[i])

NotAFloat == [k |-> "error", v |-> "ValueError"]

\* digits, or digits "." digits with a digit on one side at least and at
\* most five decimals
UnsignedFloatOf(s) ==
    IF s # <<>> /\ AllDigits(s) THEN PyFloat(DigitsValue(s) * Unit)
    ELSE IF \E i \in 1..Len(s) :
               /\ s[i] = "."
               /\ Len(s) >= 2
               /\ AllDigits(SubSeq(s, 1, i - 1))
               /\ AllDigits(SubSeq(s, i + 1, Len(s)))
               /\ Len(s) - i <= 5
    THEN LET i == CHOOSE j \in 1..Len(s) : s[j] = "."
             decimals == SubSeq(s, i + 1, Len(s))
         IN  PyFloat(DigitsValue(SubSeq(s, 1, i - 1)) * Unit
                        + DigitsValue(decimals) * 10 ^ (5 - Len(decimals)))
    ELSE NotAFloat

FloatOfStr(chars) ==
    LET s == Strip(chars)
        negative == s # <<>> /\ Head(s) = "-"
        body == IF negative THEN Tail(s) ELSE s
        number == UnsignedFloatOf(body)
    IN  IF body = <<"n", "a", "n">> THEN NaN
        ELSE IF body = <<"i", "n", "f">> THEN (IF negative THEN NegInf ELSE PosInf)
        ELSE IF number.k = "float" /\ negative THEN PyFloat(-number.v)
        ELSE number

\* an int too large for a float: float(value) raises OverflowError
HugeInt == [k |-> "hugeint", v |-> 0]

\* the exception float(value) raises, "none" when it returns
FloatError(value) ==
    IF value.k = "str" THEN (IF FloatOfStr(value.v).k = "error" THEN "ValueError" ELSE "none")
    ELSE IF value.k \in {"date", "timestamp"} THEN "ValueError"
    ELSE IF value.k \in {"none", "dict", "list"} THEN "TypeError"
    ELSE IF value.k = "hugeint" THEN "OverflowError"
    ELSE "none"

\* float(value) when it returns
FloatValue(value) == IF value.k = "str" THEN FloatOfStr(value.v) ELSE AsFloat(value)

\* a handler that does not catch OverflowError
SafeFloatCaught_NoOverflow == {"ValueError", "TypeError"}

\* except (ValueError, TypeError, OverflowError)
SafeFloatCaught == {"ValueError", "TypeError", "OverflowError"}

\* an exception leaves safe_float(value)
SafeFloatRaises(value) ==
    value.k # "none" /\ FloatError(value) \notin SafeFloatCaught \cup {"none"}

\* safe_float(value, default) when it returns
safe_float(value, default) ==
    IF value.k = "none" THEN default
    ELSE IF FloatError(value) # "none" THEN default
    ELSE LET float_val == FloatValue(value)
         IN  IF float_val.k \in {"nan", "inf", "ninf"} THEN default
             ELSE IF float_val.k = "float" THEN PyFloat(Round4(float_val.v))
             ELSE float_val

\* a pass that leaves every float as it is
ensure_json_floats_kept(x) == x

\* a pass that leaves out the dict entries holding None
RECURSIVE ensure_json_skipping_none(_)
ensure_json_skipping_none(x) ==
    IF x.k = "dict"
    THEN Dict([key \in {c \in DOMAIN x.v : x.v[c].k # "none"} |->
                  ensure_json_skipping_none(x.v[key])])
    ELSE IF x.k = "list"
    THEN List([i \in 1..Len(x.v) |-> ensure_json_skipping_none(x.v[i])])
    ELSE IF x.k = "bool" THEN PyInt(x.v)
    ELSE IF x.k \in {"int", "bigint"} THEN x
    ELSE IF IsFloat(x) \/ x.k = "bigfloat" THEN safe_float(x, Zero)
    ELSE x

\* ensure_json_serializable(data) on a value, through nested lists and dicts;
\* a bool is an int to isinstance, and int(True) is 1
RECURSIVE ensure_json_serializable(_)
ensure_json_serializable(x) ==
    IF x.k = "dict"
    THEN Dict([key \in DOMAIN x.v |-> ensure_json_serializable(x.v[key])])
    ELSE IF x.k = "list"
    THEN List([i \in 1..Len(x.v) |-> ensure_json_serializable(x.v[i])])
    ELSE IF x.k = "bool" THEN PyInt(x.v)
    ELSE IF x.k \in {"int", "bigint"} THEN x
    ELSE IF IsFloat(x) \/ x.k = "bigfloat" THEN safe_float(x, Zero)
    ELSE x

\* the same on the list of records the handler holds
EnsureRecords(recs) ==
    [i \in 1..Len(recs) |->
        [key \in DOMAIN recs[i] |-> ensure_json_serializable(recs[i][key])]]

----------------------------------------------------------------------------
(* Float arithmetic with the non-finite values *)

\* a - b
FSub(a, b) ==
    IF a.k = "nan" \/ b.k = "nan" THEN NaN
    ELSE IF a.k = "float" /\ b.k = "float" THEN PyFloat(a.v - b.v)
    ELSE IF a.k = b.k THEN NaN
    ELSE IF a.k = "float" THEN (IF b.k = "inf" THEN NegInf ELSE PosInf)
    ELSE a

\* |a| * 10^k / b rounded to the nearest integer, ties to even, without
\* an intermediate product: long division, one decimal digit at a time
RECURSIVE LongDiv(_, _, _, _)
LongDiv(q, r, k, b) ==
    IF k = 0
    THEN (IF (2 * r > b) \/ (2 * r = b /\ q % 2 = 1) THEN q + 1 ELSE q)
    ELSE LongDiv(q * 10 + (r * 10) \div b, (r * 10) % b, k - 1, b)

\* a * 10^k / b rounded (b > 0)
ScaledDiv(a, k, b) == Sign(a) * LongDiv(Abs(a) \div b, Abs(a) % b, k, b)

----------------------------------------------------------------------------
(* calculate_basic_metrics *)

\* ((close - open) / open) * 100 through safe_float(., 0.0), or 0.0
DailyReturn(open_price, close_price) ==
    IF ~FLt(Zero, open_price) THEN Zero
    ELSE IF open_price.k # "float" \/ close_price.k # "float" THEN Zero
    ELSE PyFloat(10 * ScaledDiv(close_price.v - open_price.v, 6, open_price.v))

\* safe_float((high + low + close) / 3)
TypicalPrice(high_price, low_price, close_price) ==
    IF \E p \in {high_price, low_price, close_price} : p.k # "float" THEN None
    ELSE PyFloat(10 * RoundDiv(high_price.v + low_price.v + close_price.v, 30))

\* volume / average_volume through safe_float(., 1.0), or 1.0
RelativeVolume(volume, average_volume) ==
    IF ~Truthy(average_volume) THEN PyFloat(Unit)
    ELSE IF ~FLt(Zero, AsFloat(average_volume)) THEN PyFloat(Unit)
    ELSE IF average_volume.k = "inf" THEN Zero
    ELSE PyFloat(10 * ScaledDiv(volume.v, 9, AsFloat(average_volume).v))

\* the category chain of the code on market_cap: < 2e9, < 10e9, else.
\* An int or float is below 2e9 by its range; NaN compares false twice.
MarketCapCategory(market_cap) ==
    IF market_cap.k \in {"bigint", "bigfloat"}
    THEN (IF market_cap.v < 2 THEN "Small"
          ELSE IF market_cap.v < 10 THEN "Mid"
          ELSE "Large")
    ELSE IF market_cap.k \in {"nan", "inf"} THEN "Large"
    ELSE "Small"

\* one record raises TypeError: a comparison or a subtraction with text
BasicMetricsRaisesOn(record) ==
    \/ Truthy(record["averageVolume"]) /\ ~IsNumber(record["averageVolume"])
    \/ /\ Truthy(record["trailingPE"]) /\ Truthy(record["forwardPE"])
       /\ (~IsNumber(record["trailingPE"]) \/ ~IsNumber(record["forwardPE"]))
    \/ Truthy(record["marketCap"]) /\ ~IsNumber(record["marketCap"])

BasicMetricsRaises(recs) == \E i \in 1..Len(recs) : BasicMetricsRaisesOn(recs[i])

\* the fields the loop body sets on one record
BasicMetricsOf(record) ==
    LET typical == TypicalPrice(record["High"], record["Low"], record["Close"])
        always ==
            [Daily_Return |-> DailyReturn(record["Open"], record["Close"]),
             Price_Range |-> safe_float(FSub(record["High"], record["Low"]), None),
             Typical_Price |-> typical,
             Relative_Volume |-> RelativeVolume(record["Volume"], record["averageVolume"]),
             Volume_Weighted_Price |->
                 IF Truthy(typical) THEN PyFloat(typical.v * record["Volume"].v)
                 ELSE None]
        pe == IF Truthy(record["trailingPE"]) /\ Truthy(record["forwardPE"])
              THEN [PE_Growth |->
                       safe_float(FSub(AsFloat(record["trailingPE"]),
                                       AsFloat(record["forwardPE"])), None)]
              ELSE EmptyDict
        cap == IF Truthy(record["marketCap"])
               THEN [Market_Cap_Category |->
                        Str(<<MarketCapCategory(record["marketCap"])>>)]
               ELSE EmptyDict
    IN  Update(Update(Update(record, always), pe), cap)

calculate_basic_metrics(recs) == [i \in 1..Len(recs) |-> BasicMetricsOf(recs[i])]

----------------------------------------------------------------------------
(* The configuration object (TransformConfig) *)

ma_short_period == 7
ma_long_period == 30
volatility_window == 30
rsi_period == 14

----------------------------------------------------------------------------
(* Grouping by ticker and sorting by date *)

RECURSIVE TickersInOrder(_, _)
\* the keys of ticker_groups in insertion order: first appearance in recs
TickersInOrder(recs, seen) ==
    IF recs = <<>> THEN <<>>
    ELSE IF Head(recs)["Ticker"] \in seen THEN TickersInOrder(Tail(recs), seen)
    ELSE <<Head(recs)["Ticker"]>>
         \o TickersInOrder(Tail(recs), seen \cup {Head(recs)["Ticker"]})

\* ticker_groups[ticker]: the records of the ticker, in the order of recs
GroupOf(recs, ticker) == SelectSeq(recs, LAMBDA r : r["Ticker"] = ticker)

\* x["Date"] < y["Date"] raises TypeError unless both are strings
DateComparable(x) == x["Date"].k \in {"date", "str"}
\* "" sorts before every other string
DateKeyLt(x, y) ==
    IF x["Date"].k = "str" THEN y["Date"].k = "date"
    ELSE y["Date"].k = "date" /\ DateLt(x["Date"], y["Date"])

\* list.sort(key=Date) raises when it has to compare a None
SortRaises(group) ==
    Len(group) >= 2 /\ \E i \in 1..Len(group) : ~DateComparable(group[i])

RECURSIVE InsertByDate(_, _)
\* x goes after every record that is not later than it: the sort is stable
InsertByDate(sorted, x) ==
    IF sorted = <<>> THEN <<x>>
    ELSE IF DateKeyLt(x, Head(sorted)) THEN <<x>> \o sorted
    ELSE <<Head(sorted)>> \o InsertByDate(Tail(sorted), x)

RECURSIVE SortByDate(_)
SortByDate(group) ==
    IF Len(group) <= 1 THEN group
    ELSE InsertByDate(SortByDate(SubSeq(group, 1, Len(group) - 1)), group[Len(group)])

\* some group of recs cannot be sorted
GroupSortRaises(recs) ==
    \E i \in 1..Len(recs) : SortRaises(GroupOf(recs, recs[i]["Ticker"]))

RECURSIVE Concat(_)
Concat(lists) == IF lists = <<>> THEN <<>> ELSE Head(lists) \o Concat(Tail(lists))

----------------------------------------------------------------------------
(* pd.DataFrame(ticker_records) and row.to_dict(): what a value of the     *)
(* records becomes in a row of the frame.  A key some record lacks is NaN   *)
(* there; a column of numbers with a None or a NaN is float64, so its None  *)
(* is NaN and its ints are floats; a column with text, or of None only, is  *)
(* an object column and keeps its values.                                   *)

ColumnOf(group, key) ==
    [i \in 1..Len(group) |-> IF key \in DOMAIN group[i] THEN group[i][key] ELSE NaN]

ColumnKeys(group) == UNION {DOMAIN group[i] : i \in 1..Len(group)}

IsText(x) == x.k \in {"str", "date"}
ColumnIsObject(col) ==
    \/ \E i \in 1..Len(col) : IsText(col[i])
    \/ \A i \in 1..Len(col) : col[i].k = "none"
ColumnIsInt(col) == \A i \in 1..Len(col) : col[i].k \in {"int", "bigint"}

FrameValue(col, i) ==
    IF ColumnIsObject(col) \/ ColumnIsInt(col) THEN col[i]
    ELSE IF col[i].k = "none" THEN NaN
    ELSE AsFloat(col[i])

----------------------------------------------------------------------------
(* Rolling windows.  xs is a sequence of values; the window of size w at    *)
(* position t is the positions max(1, t-w+1)..t; rolling() counts the       *)
(* finite observations of the window against min_periods (it takes the      *)
(* infinities for NaN).                                                     *)

Window(t, w) == {i \in 1..t : i > t - w}
ValidIn(xs, t, w) == {i \in Window(t, w) : xs[i].k \in {"int", "float"}}

RECURSIVE SumOver(_, _)
SumOver(f, S) ==
    IF S = {} THEN 0
    ELSE LET i == CHOOSE j \in S : TRUE IN f[i] + SumOver(f, S \ {i})

Payloads(xs) == [i \in 1..Len(xs) |-> xs[i].v]

\* the integer nearest to sqrt(n / d), for n >= 0 and d > 0 a multiple of 4
RECURSIVE SqrtFrom(_, _)
SqrtFrom(m, s) == IF (2 * s + 1) * (2 * s + 1) > m THEN s ELSE SqrtFrom(m, s + 1)
RoundSqrt(n, d) == SqrtFrom(n \div (d \div 4), 0)

----------------------------------------------------------------------------
(* calculate_time_series_metrics.  Each operator gives the value of one    *)
(* column at position t after the safe_float of the conversion loop; the    *)
(* quotients are taken exactly and rounded once, where the code rounds a    *)
(* float64.                                                                 *)

TimeSeriesKeys ==
    {"MA_7", "MA_30", "Volatility_7", "Volatility_30", "Price_Change_Pct",
     "Price_vs_MA7", "Price_vs_MA30", "Volume_MA_7", "Volume_Trend", "RSI_14"}

\* a rolling mean whose window reaches one row ahead
RollingMean_OneAhead(xs, t, w, minp) ==
    LET ahead == IF t < Len(xs) THEN t + 1 ELSE t
        V == ValidIn(xs, ahead, w)
    IN  IF Cardinality(V) < minp THEN None
        ELSE PyFloat(10 * RoundDiv(SumOver(Payloads(xs), V), 10 * Cardinality(V)))

\* a rolling mean that needs the full window
RollingMean_FullWindow(xs, t, w, minp) ==
    LET V == ValidIn(xs, t, w)
    IN  IF Cardinality(V) < w THEN None
        ELSE PyFloat(10 * RoundDiv(SumOver(Payloads(xs), V), 10 * Cardinality(V)))

\* xs.rolling(window=w, min_periods=minp).mean() at t, xs in units of 10^-5
RollingMean(xs, t, w, minp) ==
    LET V == ValidIn(xs, t, w)
    IN  IF Cardinality(V) < minp THEN None
        ELSE PyFloat(10 * RoundDiv(SumOver(Payloads(xs), V), 10 * Cardinality(V)))

\* the same for a column of ints (Volume)
RollingMeanInt(xs, t, w, minp) ==
    LET V == ValidIn(xs, t, w)
    IN  IF Cardinality(V) < minp THEN None
        ELSE PyFloat(10 * RoundDiv(SumOver(Payloads(xs), V) * 10 ^ 4, Cardinality(V)))

\* (xs - mean) / mean * 100 at t, mean the rolling mean of xs
VersusRollingMean(xs, t, w, minp) ==
    LET V == ValidIn(xs, t, w)
        c == Cardinality(V)
        sum == SumOver(Payloads(xs), V)
    IN  IF c < minp \/ xs[t].k \notin {"int", "float"} \/ sum = 0 THEN None
        ELSE PyFloat(10 * ScaledDiv(c * xs[t].v - sum, 6, sum))

\* a rolling deviation over whatever the window holds, 0 for one observation
RollingStd_PartialWindow(returns, t, w, minp) ==
    LET V == ValidIn(returns, t, w)
        c == Cardinality(V)
        r == [i \in 1..Len(returns) |-> returns[i].v \div 10]
        sq == [i \in 1..Len(returns) |-> r[i] * r[i]]
        n == c * SumOver(sq, V) - SumOver(r, V) * SumOver(r, V)
    IN  IF c < 2 THEN Zero
        ELSE PyFloat(10 * RoundSqrt(n, c * (c - 1) * 10 ^ 4))

\* rolling(window=w, min_periods=minp).std() of Daily_Return / 100 at t:
\* the sample standard deviation, sqrt((c*sum(r^2) - sum(r)^2) / (c*(c-1)))
\* with r in units of 10^-6, rounded to 4 decimals
RollingStd(returns, t, w, minp) ==
    LET V == ValidIn(returns, t, w)
        c == Cardinality(V)
        r == [i \in 1..Len(returns) |-> returns[i].v \div 10]
        sq == [i \in 1..Len(returns) |-> r[i] * r[i]]
        n == c * SumOver(sq, V) - SumOver(r, V) * SumOver(r, V)
    IN  IF c < minp \/ c < 2 THEN None
        ELSE PyFloat(10 * RoundSqrt(n, c * (c - 1) * 10 ^ 4))

\* (Close - Previous_Close) / Previous_Close * 100
PriceChangePct(close, t) ==
    IF t = 1 THEN None
    ELSE IF close[t].k # "float" \/ close[t - 1].k # "float" \/ close[t - 1].v = 0
    THEN None
    ELSE PyFloat(10 * ScaledDiv(close[t].v - close[t - 1].v, 6, close[t - 1].v))

\* delta.where(delta > 0, 0) and -delta.where(delta < 0, 0) at i; the delta
\* of the first row is NaN and counts as 0 in both
Gain(close, i) ==
    IF i > 1 /\ close[i].v > close[i - 1].v THEN close[i].v - close[i - 1].v ELSE 0
Loss(close, i) ==
    IF i > 1 /\ close[i].v < close[i - 1].v THEN close[i - 1].v - close[i].v ELSE 0

\* an RSI whose rolling means take any number of observations
RSI_MinPeriodsOne(close, t) ==
    LET W == Window(t, rsi_period)
        gain == SumOver([i \in 1..Len(close) |-> Gain(close, i)], W)
        loss == SumOver([i \in 1..Len(close) |-> Loss(close, i)], W)
    IN  IF loss = 0 THEN (IF gain = 0 THEN None ELSE PyFloat(100 * Unit))
        ELSE PyFloat(10 * ScaledDiv(gain, 6, gain + loss))

\* 100 - 100 / (1 + gain.mean() / loss.mean()) over the full period
RSI(close, t) ==
    LET W == Window(t, rsi_period)
        gain == SumOver([i \in 1..Len(close) |-> Gain(close, i)], W)
        loss == SumOver([i \in 1..Len(close) |-> Loss(close, i)], W)
    IN  IF t < rsi_period THEN None
        ELSE IF \E i \in 1..t : i >= t - rsi_period /\ close[i].k # "float" THEN None
        ELSE IF loss = 0 THEN (IF gain = 0 THEN None ELSE PyFloat(100 * Unit))
        ELSE PyFloat(10 * ScaledDiv(gain, 6, gain + loss))

\* the ten columns at row t of the frame of a sorted group of n >= 7 records
TimeSeriesRow(group, t) ==
    LET n == Len(group)
        close == ColumnOf(group, "Close")
        volume == ColumnOf(group, "Volume")
        returns == ColumnOf(group, "Daily_Return")
    IN  [MA_7 |-> RollingMean(close, t, ma_short_period, 1),
         MA_30 |-> IF n >= ma_long_period
                   THEN RollingMean(close, t, ma_long_period, ma_long_period)
                   ELSE None,
         Volatility_7 |-> RollingStd(returns, t, ma_short_period, 2),
         Volatility_30 |-> IF n >= volatility_window
                           THEN RollingStd(returns, t, volatility_window, volatility_window)
                           ELSE None,
         Price_Change_Pct |-> PriceChangePct(close, t),
         Price_vs_MA7 |-> VersusRollingMean(close, t, ma_short_period, 1),
         Price_vs_MA30 |-> IF n >= ma_long_period
                           THEN VersusRollingMean(close, t, ma_long_period, ma_long_period)
                           ELSE None,
         Volume_MA_7 |-> RollingMeanInt(volume, t, ma_short_period, 1),
         Volume_Trend |-> VersusRollingMean(volume, t, ma_short_period, 1),
         RSI_14 |-> IF n >= rsi_period THEN RSI(close, t) ELSE None]

\* zeros where the short groups get nulls
ZeroTimeSeries == [key \in TimeSeriesKeys |-> Zero]

NullTimeSeries == [key \in TimeSeriesKeys |-> None]

\* the records the loop appends for one sorted group
TimeSeriesOfGroup(group) ==
    IF Len(group) < ma_short_period
    THEN [t \in 1..Len(group) |-> Update(group[t], NullTimeSeries)]
    ELSE [t \in 1..Len(group) |->
            Update([key \in ColumnKeys(group) |-> FrameValue(ColumnOf(group, key), t)],
                   TimeSeriesRow(group, t))]

\* the short branch taken on the length of the batch, three records more
calculate_time_series_metrics_BatchLength(recs) ==
    LET tickers == TickersInOrder(recs, {})
        sorted(g) == SortByDate(GroupOf(recs, tickers[g]))
    IN  Concat([g \in 1..Len(tickers) |->
                  IF Len(recs) < ma_short_period + 4
                  THEN [t \in 1..Len(sorted(g)) |-> Update(sorted(g)[t], NullTimeSeries)]
                  ELSE TimeSeriesOfGroup(sorted(g))])

calculate_time_series_metrics(recs) ==
    LET tickers == TickersInOrder(recs, {})
    IN  Concat([g \in 1..Len(tickers) |->
                  TimeSeriesOfGroup(SortByDate(GroupOf(recs, tickers[g])))])

----------------------------------------------------------------------------
(* calculate_sector_analysis *)

Unknown == Str(<<"Unknown">>)

\* the positions whose Daily_Return goes into group_data[name], by key
\* one group of all the records that name a sector
Members_OneGroup(recs, key, name) ==
    {i \in 1..Len(recs) :
        /\ Get(recs[i], key, Unknown) # Unknown
        /\ name # Unknown
        /\ Get(recs[i], "Daily_Return", None) # None}

\* "sector" or "industry"
Members(recs, key, name) ==
    {i \in 1..Len(recs) :
        /\ Get(recs[i], key, Unknown) = name
        /\ name # Unknown
        /\ Get(recs[i], "Daily_Return", None) # None}

\* Daily_Return - mean and the mean of the group of record i, or None twice
RelativePerformance(recs, key, i) ==
    LET name == Get(recs[i], key, Unknown)
        M == Members(recs, key, name)
        c == Cardinality(M)
        sum == SumOver([j \in 1..Len(recs) |-> recs[j]["Daily_Return"].v], M)
    IN  IF M = {} \/ Get(recs[i], "Daily_Return", None) = None
        THEN <<None, None>>
        ELSE <<PyFloat(10 * RoundDiv(c * recs[i]["Daily_Return"].v - sum, 10 * c)),
               PyFloat(10 * RoundDiv(sum, 10 * c))>>

\* the records whose trailingPE goes into sector_pe_values for a sector
PEMembers(recs, sector) ==
    {j \in 1..Len(recs) :
        Get(recs[j], "sector", None) = sector /\ Truthy(Get(recs[j], "trailingPE", None))}

\* np.mean(sector_pe_values) raises on text
SectorRaisesOn(recs, i) ==
    /\ Truthy(Get(recs[i], "trailingPE", None))
    /\ Members(recs, "sector", Get(recs[i], "sector", Unknown)) # {}
    /\ \E j \in PEMembers(recs, Get(recs[i], "sector", Unknown)) :
          ~IsNumber(recs[j]["trailingPE"])

SectorRaises(recs) == \E i \in 1..Len(recs) : SectorRaisesOn(recs, i)

\* trailingPE / np.mean(sector_pe_values) when the mean is > 0
PEVersusSector(recs, i) ==
    LET sector == Get(recs[i], "sector", Unknown)
        P == PEMembers(recs, sector)
        pe == [j \in 1..Len(recs) |-> AsFloat(Get(recs[j], "trailingPE", None))]
        sum == SumOver(Payloads(pe), P)
    IN  IF ~Truthy(Get(recs[i], "trailingPE", None)) THEN None
        ELSE IF Members(recs, "sector", sector) = {} \/ P = {} THEN None
        ELSE IF \E j \in P : pe[j].k # "float" THEN None
        ELSE IF sum <= 0 THEN None
        ELSE PyFloat(10 * ScaledDiv(pe[i].v * Cardinality(P), 4, sum))

SectorFieldsOf(recs, i) ==
    [Sector_Relative_Performance |-> RelativePerformance(recs, "sector", i)[1],
     Sector_Avg_Return |-> RelativePerformance(recs, "sector", i)[2],
     Industry_Relative_Performance |-> RelativePerformance(recs, "industry", i)[1],
     Industry_Avg_Return |-> RelativePerformance(recs, "industry", i)[2],
     PE_vs_Sector_Avg |-> PEVersusSector(recs, i)]

calculate_sector_analysis(recs) ==
    [i \in 1..Len(recs) |-> Update(recs[i], SectorFieldsOf(recs, i))]

----------------------------------------------------------------------------
(* calculate_risk_metrics.  r is the sequence of the Daily_Return payloads  *)
(* of a sorted group (units of 10^-5 percent, so r * 10^-7 as a decimal).   *)

RiskKeys ==
    {"Max_Drawdown", "Sharpe_Ratio", "Value_at_Risk_5", "Return_Skewness",
     "Return_Kurtosis"}

\* one unit of the cumulative return: 10^-8
CumUnit == 10 ^ 8

\* (1 + returns).cumprod() at t, in CumUnit; each product is cut to 10^-8.
\* A return of -100 percent makes the factor 1 + (-1.0) = 0.0 exactly.
RECURSIVE CumProd(_, _)
CumProd(r, t) ==
    IF t = 0 THEN CumUnit
    ELSE IF r[t] <= -(10 ^ 7) THEN 0
    ELSE LET c == CumProd(r, t - 1)
         IN  c + ((c \div 1000) * r[t]) \div 10 ^ 4

RECURSIVE RunningMax(_, _)
\* cumulative_returns.expanding().max() at t
RunningMax(r, t) ==
    IF t = 1 THEN CumProd(r, 1)
    ELSE LET c == CumProd(r, t)
             before == RunningMax(r, t - 1)
         IN  IF c > before THEN c ELSE before

\* drawdown at t in units of 10^-4: (cumulative - rolling_max) / rolling_max
Drawdown(r, t) == ScaledDiv(CumProd(r, t) - RunningMax(r, t), 4, RunningMax(r, t))

Min(S) == CHOOSE x \in S : \A y \in S : x <= y

\* drawdown.min(): the least drawdown that is a number; where rolling_max is
\* 0 the drawdown is 0 / 0 = NaN, and the minimum of NaN only is NaN
MaxDrawdown(r) ==
    LET defined == {t \in 1..Len(r) : RunningMax(r, t) > 0}
    IN  IF defined = {} THEN NaN
        ELSE PyFloat(10 * Min({Drawdown(r, t) : t \in defined}))

AllEqual(r) == \A i \in 1..Len(r) : r[i] = r[1]

\* returns.mean() / returns.std() * sqrt(252), or 0 when the std is 0
SharpeRatio(r) == IF AllEqual(r) THEN Zero ELSE Real("sharpe", r)

RECURSIVE SortInts(_)
SortInts(xs) ==
    IF xs = <<>> THEN <<>>
    ELSE LET m == Min({xs[i] : i \in 1..Len(xs)})
             j == CHOOSE i \in 1..Len(xs) : xs[i] = m
         IN  <<m>> \o SortInts([i \in 1..Len(xs) - 1 |-> IF i < j THEN xs[i] ELSE xs[i + 1]])

\* np.percentile(returns, 5): linear interpolation at position (n - 1) / 20
ValueAtRisk5(r) ==
    LET sorted == SortInts(r)
        n == Len(r)
        lo == (n - 1) \div 20 + 1
        f == (n - 1) % 20
        hi == IF lo < n THEN lo + 1 ELSE lo
    IN  PyFloat(10 * RoundDiv(20 * sorted[lo] + f * (sorted[hi] - sorted[lo]), 20000))

\* returns.skew() and returns.kurtosis(): 0 for a constant series
ReturnSkewness(r) ==
    IF Len(r) < 3 THEN None ELSE IF AllEqual(r) THEN Zero ELSE Real("skew", r)
ReturnKurtosis(r) ==
    IF Len(r) < 4 THEN None ELSE IF AllEqual(r) THEN Zero ELSE Real("kurtosis", r)

NullRisk == [key \in RiskKeys |-> None]

\* the five values of a sorted group of at least 5 records
RiskFieldsOf(group) ==
    LET r == Payloads(ColumnOf(group, "Daily_Return"))
    IN  [Max_Drawdown |-> safe_float(MaxDrawdown(r), None),
         Sharpe_Ratio |-> SharpeRatio(r),
         Value_at_Risk_5 |-> ValueAtRisk5(r),
         Return_Skewness |-> ReturnSkewness(r),
         Return_Kurtosis |-> ReturnKurtosis(r)]

\* a loop that gives each record the metrics of the records up to it
RiskOfGroup_UpToDate(group) ==
    [t \in 1..Len(group) |->
        Update(group[t], IF t < 5 THEN NullRisk ELSE RiskFieldsOf(SubSeq(group, 1, t)))]

\* a loop that computes the metrics from 3 records on
RiskOfGroup_FromThree(group) ==
    IF Len(group) < 3
    THEN [t \in 1..Len(group) |-> Update(group[t], NullRisk)]
    ELSE LET fields == RiskFieldsOf(group)
         IN  [t \in 1..Len(group) |-> Update(group[t], fields)]

\* the records the loop appends for one sorted group
RiskOfGroup(group) ==
    IF Len(group) < 5
    THEN [t \in 1..Len(group) |-> Update(group[t], NullRisk)]
    ELSE LET fields == RiskFieldsOf(group)
         IN  [t \in 1..Len(group) |-> Update(group[t], fields)]

calculate_risk_metrics(recs) ==
    LET tickers == TickersInOrder(recs, {})
    IN  Concat([g \in 1..Len(tickers) |->
                  RiskOfGroup(SortByDate(GroupOf(recs, tickers[g])))])

----------------------------------------------------------------------------
(* The requests.  raw_data is one element chosen among the variants below   *)
(* (or none), followed by 0..MaxPad well-formed AAPL records of consecutive  *)
(* days.  Prices are near 1.0 and day returns at most 0.1 percent, which     *)
(* keeps every intermediate integer in range; values in units of 10^9 occur  *)
(* in marketCap only.                                                        *)

MaxPad == 8
MaxClock == 1

Without(d, key) == [x \in DOMAIN d \ {key} |-> d[x]]

Technology == Str(<<"Technology">>)
Software == Str(<<"Software">>)
Text == Str(<<"a", "b", "c">>)
AAPL == Str(<<"A", "A", "P", "L">>)

\* a well-formed record of day 5
BaseRecord ==
    [Ticker |-> AAPL, Date |-> DateStr(5, "date"),
     Open |-> PyFloat(100000), High |-> PyFloat(100200), Low |-> PyFloat(99900),
     Close |-> PyFloat(100100), Volume |-> PyInt(1000), Dividend |-> Zero,
     sector |-> Technology, industry |-> Software]

\* the i-th record of the padding: day i, prices and volumes that rise and fall
PadRecord(i) ==
    LET open == 100000 + 100 * (i % 3)
    IN  Dict([Ticker |-> AAPL, Date |-> DateStr(i, "date"),
              Open |-> PyFloat(open), High |-> PyFloat(open + 200),
              Low |-> PyFloat(open - 100),
              Close |-> PyFloat(open + 50 * ((2 * i) % 3)),
              Volume |-> PyInt(1000 + 10 * (i % 4)),
              sector |-> Technology, industry |-> Software])

Padding(n) == [i \in 1..n |-> PadRecord(i)]

VariantNames ==
    {"valid", "lower_ticker", "long_ticker", "no_ticker", "none_ticker", "other_ticker",
     "no_volume", "none_open", "text_close", "zero_low", "neg_volume",
     "frac_neg_volume", "inf_volume", "nan_volume", "inf_high", "nan_close",
     "high_below_open", "fine_price", "tiny_price", "none_dividend", "nan_dividend",
     "int_date", "no_date", "none_date", "time_date", "zulu_date", "offset_date",
     "with_pe", "mid_cap", "small_cap", "text_marketcap", "text_avgvol", "text_pe",
     "text_pe_alone", "zero_avgvol", "no_sector", "unknown_sector",
     "el_none", "el_int", "el_text"}

WithFields(e) == Dict(Update(BaseRecord, e))

RawVariant(name) ==
    CASE name = "valid" -> Dict(BaseRecord)
      [] name = "lower_ticker" -> WithFields([Ticker |-> Str(<<" ", "a", "a", "p", "l", " ">>)])
      [] name = "long_ticker" -> WithFields([Ticker |-> Str(<<"A", "A", "P", "L", "S", "F">>)])
      [] name = "no_ticker" -> Dict(Without(BaseRecord, "Ticker"))
      [] name = "none_ticker" -> WithFields([Ticker |-> None])
      [] name = "other_ticker" -> WithFields([Ticker |-> Str(<<"M", "S", "F", "T">>)])
      [] name = "no_volume" -> Dict(Without(BaseRecord, "Volume"))
      [] name = "none_open" -> WithFields([Open |-> None])
      [] name = "text_close" -> WithFields([Close |-> Text])
      [] name = "zero_low" -> WithFields([Low |-> PyInt(0)])
      [] name = "neg_volume" -> WithFields([Volume |-> PyInt(-1)])
      [] name = "frac_neg_volume" -> WithFields([Volume |-> PyFloat(-50000)])
      [] name = "inf_volume" -> WithFields([Volume |-> PosInf])
      [] name = "nan_volume" -> WithFields([Volume |-> NaN])
      [] name = "inf_high" -> WithFields([High |-> PosInf])
      [] name = "nan_close" -> WithFields([Close |-> NaN])
      [] name = "high_below_open" -> WithFields([High |-> PyFloat(99950)])
      [] name = "fine_price" ->
           WithFields([Low |-> PyFloat(100004), Open |-> PyFloat(100005),
                       Close |-> PyFloat(100005), High |-> PyFloat(100006)])
      [] name = "tiny_price" ->
           WithFields([Low |-> PyFloat(3), Open |-> PyFloat(4),
                       Close |-> PyFloat(4), High |-> PyFloat(4)])
      [] name = "none_dividend" -> WithFields([Dividend |-> None])
      [] name = "nan_dividend" -> WithFields([Dividend |-> NaN])
      [] name = "int_date" -> WithFields([Date |-> PyInt(20240105)])
      [] name = "no_date" -> Dict(Without(BaseRecord, "Date"))
      [] name = "none_date" -> WithFields([Date |-> None])
      [] name = "time_date" -> WithFields([Date |-> DateStr(5, "time")])
      [] name = "zulu_date" -> WithFields([Date |-> DateStr(5, "zulu")])
      [] name = "offset_date" -> WithFields([Date |-> DateStr(5, "offset")])
      [] name = "with_pe" ->
           WithFields([trailingPE |-> PyFloat(2550000), forwardPE |-> PyInt(22),
                       marketCap |-> BigInt(3000), averageVolume |-> PyInt(500)])
      [] name = "mid_cap" -> WithFields([marketCap |-> BigInt(5)])
      [] name = "small_cap" -> WithFields([marketCap |-> BigFloat(1)])
      [] name = "text_marketcap" -> WithFields([marketCap |-> Text])
      [] name = "text_avgvol" -> WithFields([averageVolume |-> Text])
      [] name = "text_pe" -> WithFields([trailingPE |-> Text, forwardPE |-> PyInt(22)])
      [] name = "text_pe_alone" -> WithFields([trailingPE |-> Text])
      [] name = "zero_avgvol" -> WithFields([averageVolume |-> PyInt(0)])
      [] name = "no_sector" -> Dict(Without(Without(BaseRecord, "sector"), "industry"))
      [] name = "unknown_sector" -> WithFields([sector |-> Unknown])
      [] name = "el_none" -> None
      [] name = "el_int" -> PyInt(7)
      [] name = "el_text" -> Text

\* the request bodies
Requests ==
    {[raw_data |-> List(Padding(n))] : n \in 0..MaxPad}
    \cup {[raw_data |-> List(<<RawVariant(name)>> \o Padding(n))] :
            name \in VariantNames, n \in 0..MaxPad}

Configs ==
    [enable_technical_indicators : BOOLEAN, enable_sector_analysis : BOOLEAN,
     enable_risk_metrics : BOOLEAN]

----------------------------------------------------------------------------
(* transform_data, one action per phase.  pc is the place of the handler:   *)
(* start, cleaned, basic, time_series, sector, risk, stamped, done.         *)

NoResponse == [status |-> 0]

\* what `except Exception` makes of anything raised in the try block, the
\* HTTPException(400) of the handler itself included
TransformationFailed(reason) ==
    [status |-> 500, detail |-> <<"Transformation failed", reason>>]

\* a result that counts no rejected record
Success_NoneCleaned(raw_records, safe_data, t) ==
    [status |-> 200,
     body |-> [success |-> TRUE,
               records_processed |-> Len(safe_data),
               records_cleaned |-> 0,
               data |-> safe_data,
               timestamp |-> Timestamp(t)]]

\* the mapping transform_data returns
Success(raw_records, safe_data, t) ==
    [status |-> 200,
     body |-> [success |-> TRUE,
               records_processed |-> Len(safe_data),
               records_cleaned |-> Len(raw_records) - Len(safe_data),
               data |-> safe_data,
               timestamp |-> Timestamp(t)]]

Fail(reason) ==
    /\ response' = TransformationFailed(reason)
    /\ pc' = "done"
    /\ UNCHANGED scheduler_vars
    /\ UNCHANGED <<data, config, records, now, calls, first_response>>

Step(next, recs) ==
    /\ records' = recs
    /\ pc' = next
    /\ UNCHANGED scheduler_vars
    /\ UNCHANGED <<data, config, response, now, calls, first_response>>

\* the request checks and Phase 1: clean_and_standardize
Clean ==
    /\ pc = "start"
    /\ IF "raw_data" \notin DOMAIN data THEN Fail("400: raw_data field required")
       ELSE IF data["raw_data"].k # "list" THEN Fail("400: raw_data must be a list")
       ELSE IF CleanRaises(data["raw_data"].v) THEN Fail("error in clean_and_standardize")
       ELSE LET cleaned_data == clean_and_standardize(data["raw_data"].v)
            IN  IF cleaned_data = <<>>
                THEN Fail("400: No valid records after cleaning")
                ELSE Step("cleaned", cleaned_data)

\* Phase 1: calculate_basic_metrics
BasicMetrics ==
    /\ pc = "cleaned"
    /\ IF BasicMetricsRaises(records) THEN Fail("error in calculate_basic_metrics")
       ELSE Step("basic", calculate_basic_metrics(records))

\* Phase 2 run from ma_short_period records on, not from one more
TimeSeries_AtLeast ==
    /\ pc = "basic"
    /\ IF config.enable_technical_indicators /\ Len(records) >= ma_short_period
       THEN IF GroupSortRaises(records)
            THEN Fail("error in calculate_time_series_metrics")
            ELSE Step("time_series", calculate_time_series_metrics(records))
       ELSE Step("time_series", records)

\* Phase 2: calculate_time_series_metrics, if enabled and sufficient data
TimeSeries ==
    /\ pc = "basic"
    /\ IF config.enable_technical_indicators /\ Len(records) > ma_short_period
       THEN IF GroupSortRaises(records)
            THEN Fail("error in calculate_time_series_metrics")
            ELSE Step("time_series", calculate_time_series_metrics(records))
       ELSE Step("time_series", records)

\* Phase 3: calculate_sector_analysis
SectorAnalysis ==
    /\ pc = "time_series"
    /\ IF config.enable_sector_analysis
       THEN IF SectorRaises(records) THEN Fail("error in calculate_sector_analysis")
            ELSE Step("sector", calculate_sector_analysis(records))
       ELSE Step("sector", records)

\* Phase 4: calculate_risk_metrics
RiskMetrics ==
    /\ pc = "sector"
    /\ IF config.enable_risk_metrics
       THEN IF GroupSortRaises(records) THEN Fail("error in calculate_risk_metrics")
            ELSE Step("risk", calculate_risk_metrics(records))
       ELSE Step("risk", records)

\* metadata that depends on how many calls the service has seen
Stamp_CountingCalls ==
    /\ pc = "risk"
    /\ \E t \in now..MaxClock :
         /\ now' = t
         /\ records' = [i \in 1..Len(records) |->
                          Update(records[i],
                                 [transformation_timestamp |-> Timestamp(t),
                                  transformation_version |-> PyInt(calls)])]
    /\ pc' = "stamped"
    /\ UNCHANGED scheduler_vars
    /\ UNCHANGED <<data, config, response, calls, first_response>>

\* the transformation metadata; the clock has moved on by some amount
Stamp ==
    /\ pc = "risk"
    /\ \E t \in now..MaxClock :
         /\ now' = t
         /\ records' = [i \in 1..Len(records) |->
                          Update(records[i],
                                 [transformation_timestamp |-> Timestamp(t),
                                  transformation_version |-> Str(<<"2.0.0">>)])]
    /\ pc' = "stamped"
    /\ UNCHANGED scheduler_vars
    /\ UNCHANGED <<data, config, response, calls, first_response>>

\* the returned mapping built from the records as they are
Respond_WithoutSafetyPass ==
    /\ pc = "stamped"
    /\ \E t \in now..MaxClock :
         /\ now' = t
         /\ response' = Success(data["raw_data"].v, records, t)
    /\ pc' = "done"
    /\ UNCHANGED scheduler_vars
    /\ UNCHANGED <<data, config, records, calls, first_response>>

\* ensure_json_serializable and the returned mapping
Respond ==
    /\ pc = "stamped"
    /\ \E t \in now..MaxClock :
         /\ now' = t
         /\ response' = Success(data["raw_data"].v, EnsureRecords(records), t)
    /\ pc' = "done"
    /\ UNCHANGED scheduler_vars
    /\ UNCHANGED <<data, config, records, calls, first_response>>

\* the caller sends the same request again
Resubmit ==
    /\ pc = "done"
    /\ calls = 1
    /\ calls' = 2
    /\ first_response' = response
    /\ response' = NoResponse
    /\ records' = <<>>
    /\ pc' = "start"
    /\ UNCHANGED scheduler_vars
    /\ UNCHANGED <<data, config, now>>

Init ==
    /\ data \in Requests \cup {EmptyDict, [raw_data |-> Text]}
    /\ config \in Configs
    /\ pc = "start"
    /\ records = <<>>
    /\ response = NoResponse
    /\ now = 0
    /\ calls = 1
    /\ first_response = NoResponse
    /\ job_status = JobStatusAtImport
    /\ runs = <<>>

Next ==
    \/ Clean
    \/ BasicMetrics
    \/ TimeSeries
    \/ SectorAnalysis
    \/ RiskMetrics
    \/ Stamp
    \/ Respond

Spec == Init /\ [][Next]_vars

----------------------------------------------------------------------------
(* Properties *)

Returned == pc = "done" /\ response.status = 200
Failed == pc = "done" /\ response.status # 200
IsListRequest == "raw_data" \in DOMAIN data /\ data["raw_data"].k = "list"
RawRecords == data["raw_data"].v
Output == response.body.data

\* the elements of raw_data the validator accepts, and the others
Accepted == {i \in 1..Len(RawRecords) : CleanRecord(RawRecords[i]).o = "ok"}
Rejected == (1..Len(RawRecords)) \ Accepted

NonFinite(x) == x.k \in {"nan", "inf", "ninf"}

\* C1: every returned record has Low <= Open <= High and Low <= Close <= High
OHLCOrdered(r) ==
    /\ FLe(AsFloat(r["Low"]), AsFloat(r["Open"]))
    /\ FLe(AsFloat(r["Open"]), AsFloat(r["High"]))
    /\ FLe(AsFloat(r["Low"]), AsFloat(r["Close"]))
    /\ FLe(AsFloat(r["Close"]), AsFloat(r["High"]))

\* C1: every record in the data transform_data returns satisfies
\* Low <= Open <= High and Low <= Close <= High
C1_OutputOHLCOrdered ==
    Returned => \A i \in 1..Len(Output) : OHLCOrdered(Output[i])

\* what C2 calls a record that must not appear, read off the raw element
NumberLe0(x) == IsNumber(x) /\ FLe(AsFloat(x), Zero)
NumberLt0(x) == IsNumber(x) /\ FLt(AsFloat(x), Zero)
MustBeDropped(el) ==
    \/ ~HasRequiredKeys(el)
    \/ \E key \in PriceKeys : NumberLe0(el.v[key])
    \/ NumberLt0(el.v["Volume"])
    \/ ~MatchesSymbol(TickerOf(el.v))

\* C2: no raw record that lacks one of Open/High/Low/Close/Volume, has a
\* price <= 0, has Volume < 0 or a Ticker that fails the pattern appears in
\* the output of clean_and_standardize: the cleaned list is no longer than
\* the list of the raw records that are none of these
C2_NoInvalidRecordCleaned ==
    pc = "cleaned" =>
        Len(records) <= Cardinality({i \in 1..Len(RawRecords) :
                                        ~MustBeDropped(RawRecords[i])})

\* C3: when raw_data holds at least one valid record, transform_data returns
\* and its output is exactly the valid records, whatever the other elements
C3_RejectionNeverAborts ==
    (pc = "done" /\ IsListRequest /\ Accepted # {}) =>
        (response.status = 200 /\ Len(Output) = Cardinality(Accepted))

BatchEmpty == IsListRequest /\ ~CleanRaises(RawRecords) /\ Accepted = {}

\* C5: BatchEmpty is surfaced with a status other than the one an internal
\* fault of the pipeline gets
C5_BatchEmptyDistinguishable ==
    (pc = "done" /\ BatchEmpty) =>
        response.status # TransformationFailed("error in calculate_basic_metrics").status

\* C6: a fault while deriving a field of one validated record does not fail
\* the call: the records are still returned
C6_ComputationFaultIsolated ==
    (pc = "done" /\ IsListRequest /\ ~CleanRaises(RawRecords) /\ Accepted # {}
        /\ BasicMetricsRaises(clean_and_standardize(RawRecords))) =>
        (response.status = 200 /\ Len(Output) = Cardinality(Accepted))

\* the two invocations of C7: the caller repeats the request once
NextTwice == Next \/ Resubmit

SpecTwice == Init /\ [][NextTwice]_vars

\* a response without the fields that carry the time of the call
WithoutTimestamps(resp) ==
    IF resp.status # 200 THEN resp
    ELSE [status |-> resp.status,
          body |-> [success |-> resp.body.success,
                    records_processed |-> resp.body.records_processed,
                    records_cleaned |-> resp.body.records_cleaned,
                    data |-> [i \in 1..Len(resp.body.data) |->
                                Without(resp.body.data[i],
                                        "transformation_timestamp")]]]

SecondDone == calls = 2 /\ pc = "done"

BasicKeys ==
    {"Daily_Return", "Price_Range", "Typical_Price", "Relative_Volume",
     "Volume_Weighted_Price"}
OptionalKeys == {"PE_Growth", "Market_Cap_Category"}
SectorKeys ==
    {"Sector_Relative_Performance", "Sector_Avg_Return",
     "Industry_Relative_Performance", "Industry_Avg_Return", "PE_vs_Sector_Avg"}
DerivedKeys == BasicKeys \cup OptionalKeys \cup TimeSeriesKeys \cup SectorKeys \cup RiskKeys

\* C8: every returned record has every derived field
C8_AllDerivedFieldsPresent ==
    Returned => \A i \in 1..Len(Output) : DerivedKeys \subseteq DOMAIN Output[i]

Has(r, keys) == keys \subseteq DOMAIN r
HasNone(r, keys) == keys \cap DOMAIN r = {}

\* C8 as the code has it: the five basic metrics are in every returned
\* record; the ten time-series fields are there when technical indicators
\* are enabled and more than ma_short_period records were accepted, and
\* absent otherwise; the sector fields and the risk fields are there when
\* their toggle is on and absent otherwise; PE_Growth is absent when no
\* accepted record has both PEs, Market_Cap_Category when none has marketCap
C8_DerivedFieldsByPhase ==
    Returned =>
        LET cleaned == clean_and_standardize(RawRecords)
            no_pe == \A j \in 1..Len(cleaned) :
                        ~(Truthy(cleaned[j]["trailingPE"])
                             /\ Truthy(cleaned[j]["forwardPE"]))
            no_cap == \A j \in 1..Len(cleaned) : ~Truthy(cleaned[j]["marketCap"])
            absent == (IF no_pe THEN {"PE_Growth"} ELSE {})
                         \cup (IF no_cap THEN {"Market_Cap_Category"} ELSE {})
        IN  \A i \in 1..Len(Output) :
                LET r == Output[i] IN
                /\ Has(r, BasicKeys)
                /\ IF config.enable_technical_indicators
                        /\ Len(Output) > ma_short_period
                   THEN Has(r, TimeSeriesKeys) ELSE HasNone(r, TimeSeriesKeys)
                /\ IF config.enable_sector_analysis
                   THEN Has(r, SectorKeys) ELSE HasNone(r, SectorKeys)
                /\ IF config.enable_risk_metrics
                   THEN Has(r, RiskKeys) ELSE HasNone(r, RiskKeys)
                /\ HasNone(r, absent)

C8_Witness ==
    /\ Returned
    /\ config.enable_technical_indicators
    /\ Len(Output) = ma_short_period
    /\ \E i \in 1..Len(Output) : HasNone(Output[i], TimeSeriesKeys \cup OptionalKeys)

RECURSIVE AllFinite(_)
AllFinite(x) ==
    IF x.k = "dict" THEN \A key \in DOMAIN x.v : AllFinite(x.v[key])
    ELSE IF x.k = "list" THEN \A i \in 1..Len(x.v) : AllFinite(x.v[i])
    ELSE ~NonFinite(x)

\* C9: no NaN and no infinity is in the data transform_data returns, at
\* any depth
C9_OutputFinite ==
    Returned => \A i \in 1..Len(Output) : AllFinite(Dict(Output[i]))

C9_Witness ==
    /\ Returned
    /\ \E i \in 1..Len(records) : \E key \in DOMAIN records[i] :
          NonFinite(records[i][key])

\* C10: a derived field that is NaN or infinite when it reaches
\* ensure_json_serializable is returned as null
C10_NonFiniteBecomesNull ==
    Returned => \A i \in 1..Len(records) :
        \A key \in (DerivedKeys \ {"Market_Cap_Category"}) \cap DOMAIN records[i] :
            NonFinite(records[i][key]) => Output[i][key] = None

----------------------------------------------------------------------------
(* safe_float on its own: one call with a value and a default *)

SafeFloatValues ==
    {None, NaN, PosInf, NegInf, HugeInt, Text, Str(<<>>), Dict(EmptyDict), List(<<>>),
     DateStr(5, "date"), Timestamp(0), BigInt(3), BigFloat(3), Real("sharpe", <<1, 2>>),
     Str(<<"n", "a", "n">>), Str(<<"-", "i", "n", "f">>), Str(<<"i", "n", "f">>),
     Str(<<"1", ".", "5">>), Str(<<" ", "2", " ">>), Str(<<"-", "0", ".", "0", "0", "0", "0", "7">>),
     Str(<<"1", ".">>), Str(<<".">>), Str(<<"1", ".", "2", ".", "3">>)}
    \cup {PyInt(n) : n \in {-3, 0, 7}}
    \cup {PyFloat(n) : n \in {-123456, -15, -5, -4, 0, 4, 5, 6, 15, 25, 123444,
                              123445, 123446, 123450, 266670, 15550000}}

SafeFloatDefaults == {None, Zero, PyFloat(Unit)}

DefaultConfig ==
    [enable_technical_indicators |-> TRUE, enable_sector_analysis |-> TRUE,
     enable_risk_metrics |-> TRUE]

InitSafeFloat ==
    /\ data \in [value : SafeFloatValues, default : SafeFloatDefaults]
    /\ config = DefaultConfig
    /\ pc = "call"
    /\ records = <<>>
    /\ response = NoResponse
    /\ now = 0
    /\ calls = 1
    /\ first_response = NoResponse
    /\ job_status = JobStatusAtImport
    /\ runs = <<>>

\* the call safe_float(value, default): it returns a value or raises
CallSafeFloat ==
    /\ pc = "call"
    /\ response' = IF SafeFloatRaises(data.value)
                   THEN [status |-> "raised", error |-> FloatError(data.value)]
                   ELSE [status |-> "returned",
                         value |-> safe_float(data.value, data.default)]
    /\ pc' = "called"
    /\ UNCHANGED scheduler_vars
    /\ UNCHANGED <<data, config, records, now, calls, first_response>>

NextSafeFloat == CallSafeFloat

SpecSafeFloat == InitSafeFloat /\ [][NextSafeFloat]_vars

\* the values float() converts to a finite float
ConvertsToFinite(value) ==
    \/ value.k \in {"int", "float", "bigint", "bigfloat", "real"}
    \/ value.k = "str" /\ FloatOfStr(value.v).k = "float"

\* r is x rounded to four decimals: a multiple of 10^-4 nearest to x
IsRounded4(r, x) == r.k = "float" /\ r.v % 10 = 0 /\ Abs(r.v - x.v) <= 5

\* C11: safe_float(value, default) never raises; it returns default for
\* None, NaN, the infinities and every value float() cannot convert, and the
\* value as a float rounded to 4 decimals for every other value
C11_SafeFloatTotal ==
    pc = "called" =>
        /\ response.status = "returned"
        /\ IF ConvertsToFinite(data.value)
           THEN LET x == FloatValue(data.value)
                IN  IF x.k = "float" THEN IsRounded4(response.value, x)
                    ELSE response.value = x
           ELSE response.value = data.default

C11_Witness ==
    /\ pc = "called"
    /\ data.value = PyFloat(123446)
    /\ data.default = Zero
    /\ response.value = PyFloat(123450)

----------------------------------------------------------------------------
(* Requests that carry one ticker series.  raw_data is an AAPL series of n  *)
(* records of days 1..n whose prices follow a shape, alone or interleaved   *)
(* with three MSFT records, in the order of the dates or reversed.  The      *)
(* lengths are those around the thresholds of the phases: the short window,  *)
(* the RSI period, the long window and the 5 returns of the risk metrics;    *)
(* the series of the long window are those of the shape zigzag.              *)

MaxSeries == 31

SeriesLengths ==
    {n \in 1..MaxSeries : n <= ma_short_period + 1
                            \/ n \in rsi_period - 1..rsi_period + 1
                            \/ n >= ma_long_period - 1}

\* flat: a constant price; up, down: strictly monotonic closes; zigzag: rises
\* and falls; example: Open 150 / Close 154, then Open 154 / Close 157, ...;
\* crash: the first day falls from 400 to 0.0001, the others are flat
SeriesShapes == {"flat", "up", "down", "zigzag", "example", "crash"}

LengthsOf(shape) ==
    IF shape = "example" THEN {1, 2}
    ELSE IF shape = "crash" THEN 1..(ma_short_period - 1)
    ELSE IF shape = "zigzag" THEN SeriesLengths
    ELSE {n \in SeriesLengths : n <= rsi_period + 1}

SeriesClose(shape, i) ==
    CASE shape = "flat" -> 100000
      [] shape = "up" -> 100000 + 100 * i
      [] shape = "down" -> 110000 - 100 * i
      [] shape = "zigzag" -> 100000 + 20 * ((i * i) % 5)
      [] shape = "example" -> 15100000 + 300000 * i
      [] shape = "crash" -> IF i = 1 THEN 10 ELSE 100000

SeriesOpen(shape, i) ==
    CASE shape = "flat" -> 100000
      [] shape = "up" -> 100050 + 100 * i
      [] shape = "down" -> 109950 - 100 * i
      [] shape = "zigzag" -> 100050
      [] shape = "example" -> IF i = 1 THEN 15000000 ELSE 15100000 + 300000 * (i - 1)
      [] shape = "crash" -> IF i = 1 THEN 40000000 ELSE 100000

Max2(a, b) == IF a > b THEN a ELSE b
Min2(a, b) == IF a < b THEN a ELSE b

SeriesRecord(shape, i) ==
    LET open == SeriesOpen(shape, i)
        close == SeriesClose(shape, i)
    IN  Dict([Ticker |-> AAPL, Date |-> DateStr(i, "date"),
              Open |-> PyFloat(open), Close |-> PyFloat(close),
              High |-> PyFloat(Max2(open, close)), Low |-> PyFloat(Min2(open, close)),
              Volume |-> PyInt(IF shape \in {"example", "crash"} THEN 10 + i
                               ELSE 1000 + 10 * (i % 4)),
              sector |-> Technology, industry |-> Software])

MSFT == Str(<<"M", "S", "F", "T">>)

CompanionRecord(j) ==
    Dict([Ticker |-> MSFT, Date |-> DateStr(j, "date"),
          Open |-> PyFloat(200000), High |-> PyFloat(200300), Low |-> PyFloat(199900),
          Close |-> PyFloat(200000 + 100 * j), Volume |-> PyInt(500 + j),
          sector |-> Technology, industry |-> Software])

Companion == [j \in 1..3 |-> CompanionRecord(j)]

RECURSIVE Interleave(_, _)
\* a[1], b[1], a[2], b[2], ... and what is left of the longer
Interleave(a, b) ==
    IF a = <<>> THEN b
    ELSE IF b = <<>> THEN a
    ELSE <<Head(a), Head(b)>> \o Interleave(Tail(a), Tail(b))

Reverse(l) == [i \in 1..Len(l) |-> l[Len(l) + 1 - i]]

SeriesBatch(shape, n, companion, reversed) ==
    LET series == [i \in 1..n |-> SeriesRecord(shape, i)]
        batch == IF companion THEN Interleave(series, Companion) ELSE series
    IN  IF reversed THEN Reverse(batch) ELSE batch

SeriesRequests ==
    UNION {{[raw_data |-> List(SeriesBatch(shape, n, companion, reversed))] :
                n \in LengthsOf(shape), companion \in BOOLEAN, reversed \in BOOLEAN} :
           shape \in SeriesShapes}

InitSeries ==
    /\ data \in SeriesRequests
    /\ config \in Configs
    /\ pc = "start"
    /\ records = <<>>
    /\ response = NoResponse
    /\ now = 0
    /\ calls = 1
    /\ first_response = NoResponse
    /\ job_status = JobStatusAtImport
    /\ runs = <<>>

SpecSeries == InitSeries /\ [][Next]_vars

----------------------------------------------------------------------------
(* Properties of the series *)

\* the records of the ticker of out[i], and the place of out[i] among them
\* in the order of the dates (1 is the earliest)
SameTicker(out, i) == {j \in 1..Len(out) : out[j]["Ticker"] = out[i]["Ticker"]}
PositionOf(out, i) ==
    1 + Cardinality({j \in SameTicker(out, i) : DateLt(out[j]["Date"], out[i]["Date"])})
SeriesLengthOf(out, i) == Cardinality(SameTicker(out, i))

\* the records of the ticker of out[i] at the places p - w + 1 .. p, p the
\* place of out[i]: its trailing window of w records
Trailing(out, i, w) ==
    {j \in SameTicker(out, i) :
        /\ PositionOf(out, j) <= PositionOf(out, i)
        /\ PositionOf(out, j) > PositionOf(out, i) - w}

\* x is the mean of the field over the records S, to four decimals
IsMeanOf(x, out, field, S) ==
    LET sum == SumOver([j \in 1..Len(out) |-> out[j][field].v], S)
        c == Cardinality(S)
    IN  /\ x.k = "float"
        /\ x.v % 10 = 0
        /\ 2 * Abs(c * x.v - sum) <= 10 * c

TechnicalReturned == Returned /\ config.enable_technical_indicators

\* C12: in every ticker series of any length >= 1, MA_7 is non-null at every
\* position and is the mean of Close over the trailing min(t + 1, 7) records
C12_ShortAverageAlwaysDefined ==
    TechnicalReturned => \A i \in 1..Len(Output) :
        /\ "MA_7" \in DOMAIN Output[i]
        /\ IsMeanOf(Output[i]["MA_7"], Output, "Close",
                    Trailing(Output, i, ma_short_period))

\* C12 as the code has it: MA_7 is that mean in the ticker series of at
\* least ma_short_period records of a batch of more than ma_short_period
\* accepted records; in a shorter series of such a batch it is null on every
\* record, and in a smaller batch no record has the field
C12_ShortAverageOfLongSeries ==
    TechnicalReturned => \A i \in 1..Len(Output) :
        IF Len(Output) <= ma_short_period THEN "MA_7" \notin DOMAIN Output[i]
        ELSE IF SeriesLengthOf(Output, i) < ma_short_period
        THEN Output[i]["MA_7"] = None
        ELSE IsMeanOf(Output[i]["MA_7"], Output, "Close",
                      Trailing(Output, i, ma_short_period))

C12_Witness ==
    /\ TechnicalReturned
    /\ Len(Output) > ma_short_period
    /\ \E i \in 1..Len(Output) :
          /\ SeriesLengthOf(Output, i) >= ma_short_period
          /\ PositionOf(Output, i) = 2
          /\ Output[i]["MA_7"].k = "float"
          /\ Output[i]["MA_7"] # Output[i]["Close"]
    /\ \E i \in 1..Len(Output) :
          SeriesLengthOf(Output, i) < ma_short_period /\ Output[i]["MA_7"] = None

\* the Close of the ticker series of out[i] rises at every step, or falls at
\* every step
StrictlyMonotonic(out, i) ==
    LET S == SameTicker(out, i)
        before(a, b) == DateLt(out[a]["Date"], out[b]["Date"])
    IN  \/ \A a, b \in S : before(a, b) => out[a]["Close"].v < out[b]["Close"].v
        \/ \A a, b \in S : before(a, b) => out[a]["Close"].v > out[b]["Close"].v

RiskReturned == Returned /\ config.enable_risk_metrics

\* a value that is a finite number
IsFiniteNumber(x) == x.k \in {"int", "float", "real"}

\* C14: a return series of length 3 yields a finite Return_Skewness and a
\* null Return_Kurtosis, one of length 4 yields both finite
C14_SkewnessFromThreeKurtosisFromFour ==
    RiskReturned => \A i \in 1..Len(Output) :
        /\ SeriesLengthOf(Output, i) = 3 =>
              /\ IsFiniteNumber(Output[i]["Return_Skewness"])
              /\ Output[i]["Return_Kurtosis"] = None
        /\ SeriesLengthOf(Output, i) = 4 =>
              /\ IsFiniteNumber(Output[i]["Return_Skewness"])
              /\ IsFiniteNumber(Output[i]["Return_Kurtosis"])

\* C14 as the code has it: below 5 records both are null, from 5 records on
\* both are numbers
C14_SkewnessAndKurtosisFromFive ==
    RiskReturned => \A i \in 1..Len(Output) :
        IF SeriesLengthOf(Output, i) < 5
        THEN /\ Output[i]["Return_Skewness"] = None
             /\ Output[i]["Return_Kurtosis"] = None
        ELSE /\ IsFiniteNumber(Output[i]["Return_Skewness"])
             /\ IsFiniteNumber(Output[i]["Return_Kurtosis"])

C14_Witness ==
    /\ RiskReturned
    /\ \E i, j \in 1..Len(Output) :
          /\ SeriesLengthOf(Output, i) = 3
          /\ Output[i]["Return_Skewness"] = None
          /\ SeriesLengthOf(Output, j) = 5
          /\ Output[j]["Return_Skewness"].k = "real"
          /\ Output[j]["Return_Kurtosis"].k = "real"

\* C15: Max_Drawdown, Sharpe_Ratio and Value_at_Risk_5 are null for a ticker
\* with fewer than 5 returns and non-null for one with 5 or more
C15_RiskFieldsFromFive ==
    RiskReturned => \A i \in 1..Len(Output) :
        \A key \in {"Max_Drawdown", "Sharpe_Ratio", "Value_at_Risk_5"} :
            IF SeriesLengthOf(Output, i) < 5
            THEN Output[i][key] = None
            ELSE Output[i][key] # None

SectorReturned == Returned /\ config.enable_sector_analysis

\* the records that contribute a Daily_Return to the sector (industry) of
\* out[i]
Contributing(out, key, i) ==
    {j \in 1..Len(out) :
        /\ out[j][key] = out[i][key]
        /\ out[j][key] # Unknown
        /\ out[j]["Daily_Return"] # None}

\* C16: the only contributing record of a sector (industry) has a relative
\* performance of 0 and an average return equal to its own Daily_Return
C16_SingleContributor ==
    SectorReturned => \A i \in 1..Len(Output) :
        /\ Contributing(Output, "sector", i) = {i} =>
              /\ Output[i]["Sector_Relative_Performance"] = Zero
              /\ Output[i]["Sector_Avg_Return"] = Output[i]["Daily_Return"]
        /\ Contributing(Output, "industry", i) = {i} =>
              /\ Output[i]["Industry_Relative_Performance"] = Zero
              /\ Output[i]["Industry_Avg_Return"] = Output[i]["Daily_Return"]

C16_Witness ==
    /\ SectorReturned
    /\ \E i, j \in 1..Len(Output) :
          /\ Contributing(Output, "sector", i) = {i}
          /\ Contributing(Output, "industry", i) = {i}
          /\ Contributing(Output, "sector", j) # {}
          /\ Output[i]["Daily_Return"] # Output[j]["Daily_Return"]
          /\ Output[i]["Sector_Relative_Performance"] = Zero
          /\ Output[i]["Industry_Avg_Return"] = Output[i]["Daily_Return"]
          /\ Output[i]["Daily_Return"] # Zero

\* the records of one ticker are adjacent
GroupedByTicker(out) ==
    \A i, j, l \in 1..Len(out) :
        i < j /\ j < l /\ out[i]["Ticker"] = out[l]["Ticker"]
            => out[j]["Ticker"] = out[i]["Ticker"]

\* within a ticker no record comes before one of an earlier date
AscendingDates(out) ==
    \A i, j \in 1..Len(out) :
        i < j /\ out[i]["Ticker"] = out[j]["Ticker"]
            => ~DateLt(out[j]["Date"], out[i]["Date"])

\* C17: the output is grouped by ticker and in ascending date order within
\* each ticker, for every input order, batch size and feature toggles
C17_AlwaysGroupedAndSorted ==
    Returned => GroupedByTicker(Output) /\ AscendingDates(Output)

\* the ten time-series fields of a record are all there and all null, or
\* none of them is there
AllNullTimeSeries(r) == \A key \in TimeSeriesKeys : key \in DOMAIN r /\ r[key] = None
NoTimeSeries(r) == \A key \in TimeSeriesKeys : key \notin DOMAIN r

NoValue(r, key) == Get(r, key, None) = None

TimeSeriesOf(raw_records) ==
    LET transformed_records == calculate_basic_metrics(clean_and_standardize(raw_records))
    IN  IF Len(transformed_records) > ma_short_period
        THEN calculate_time_series_metrics(transformed_records)
        ELSE transformed_records

\* raw_records without the records of the ticker dated after the day
UpTo(raw_records, ticker, day) ==
    SelectSeq(raw_records,
              LAMBDA x : ~(x.v["Ticker"] = ticker /\ x.v["Date"].v[1] > day))

\* the time-series values of a record, null for a field that is not there
TimeSeriesValues(r) == [key \in TimeSeriesKeys |-> Get(r, key, None)]

\* the values of the record of recs with the ticker and the date of r
ValuesAt(recs, r) ==
    TimeSeriesValues(recs[CHOOSE j \in 1..Len(recs) :
                              /\ recs[j]["Ticker"] = r["Ticker"]
                              /\ recs[j]["Date"] = r["Date"]])

\* the records of the ticker of out[i] that are not later than out[i]
NotLater(out, i) ==
    {j \in SameTicker(out, i) : ~DateLt(out[i]["Date"], out[j]["Date"])}

\* C20: the time-series fields of a record are those of the run on the batch
\* without the later records of its ticker: appending later-dated records
\* changes no field of the earlier records
C20_NoLookahead ==
    TechnicalReturned => \A i \in 1..Len(Output) :
        \A before \in {TimeSeriesOf(UpTo(RawRecords, Output[i]["Ticker"],
                                         Output[i]["Date"].v[1]))} :
            \A j \in NotLater(Output, i) :
                TimeSeriesValues(Output[j]) = ValuesAt(before, Output[j])

\* C20 as the code has it: that holds from the point where the ticker has
\* ma_short_period records in a batch of more than ma_short_period accepted
\* records; before it the run on the shorter batch gives no value at all
C20_NoLookaheadFromShortWindow ==
    TechnicalReturned => \A i \in 1..Len(Output) :
        \A before \in {TimeSeriesOf(UpTo(RawRecords, Output[i]["Ticker"],
                                         Output[i]["Date"].v[1]))} :
            \A j \in NotLater(Output, i) :
                IF PositionOf(Output, i) >= ma_short_period
                       /\ Len(before) > ma_short_period
                THEN TimeSeriesValues(Output[j]) = ValuesAt(before, Output[j])
                ELSE ValuesAt(before, Output[j]) = NullTimeSeries

C20_Witness ==
    /\ TechnicalReturned
    /\ Len(Output) > ma_long_period
    /\ \E i \in 1..Len(Output) :
          \E before \in {TimeSeriesOf(UpTo(RawRecords, Output[i]["Ticker"],
                                           Output[i]["Date"].v[1]))} :
              /\ PositionOf(Output, i) = rsi_period
              /\ Len(before) > ma_short_period
              /\ Len(before) < Len(Output)
              /\ Output[i]["RSI_14"].k = "float"
              /\ Output[i]["Price_vs_MA7"] # Zero
              /\ \A j \in NotLater(Output, i) :
                    TimeSeriesValues(Output[j]) = ValuesAt(before, Output[j])

----------------------------------------------------------------------------
(* Properties of the batch *)

\* the records after phases 1 to 4 of a run on raw_records under cfg
PhasesOf(raw_records, cfg) ==
    LET basic == calculate_basic_metrics(clean_and_standardize(raw_records))
        series == IF cfg.enable_technical_indicators /\ Len(basic) > ma_short_period
                  THEN calculate_time_series_metrics(basic)
                  ELSE basic
        sector == IF cfg.enable_sector_analysis
                  THEN calculate_sector_analysis(series)
                  ELSE series
    IN  IF cfg.enable_risk_metrics THEN calculate_risk_metrics(sector) ELSE sector

\* the elements of raw_records of one ticker
OnlyTicker(raw_records, ticker) ==
    SelectSeq(raw_records, LAMBDA x : x.v["Ticker"] = ticker)

\* the record of recs with the ticker and the date of r
RecordAt(recs, r) ==
    recs[CHOOSE j \in 1..Len(recs) :
            recs[j]["Ticker"] = r["Ticker"] /\ recs[j]["Date"] = r["Date"]]

\* the fields of r among the keys, those that are there
Restricted(r, keys) == [key \in keys \cap DOMAIN r |-> r[key]]

TickersOf(out) == {out[i]["Ticker"] : i \in 1..Len(out)}

AcceptedWithout(key) == {i \in Accepted : key \notin DOMAIN RawRecords[i].v}

\* the returned records whose fields of the keys are all there and all null
ReturnedWithNull(keys) ==
    {j \in 1..Len(Output) : \A key \in keys : key \in DOMAIN Output[j] /\ Output[j][key] = None}

\* C22: each accepted record without a sector (industry) gets null sector
\* (industry) fields and a null PE_vs_Sector_Avg, each one without a
\* trailingPE gets a null PE_vs_Sector_Avg, and the attribute that was missing
\* is still missing in the output: there are at least as many such returned
\* records as accepted records of each kind
C22_MissingAttributeGivesNull ==
    SectorReturned =>
        /\ Cardinality(ReturnedWithNull({"Sector_Relative_Performance", "Sector_Avg_Return",
                                         "PE_vs_Sector_Avg"}))
              >= Cardinality(AcceptedWithout("sector"))
        /\ Cardinality(ReturnedWithNull({"Industry_Relative_Performance",
                                         "Industry_Avg_Return"}))
              >= Cardinality(AcceptedWithout("industry"))
        /\ Cardinality(ReturnedWithNull({"PE_vs_Sector_Avg"}))
              >= Cardinality(AcceptedWithout("trailingPE"))
        /\ \A key \in {"sector", "industry"} :
              Cardinality({j \in 1..Len(Output) : key \notin DOMAIN Output[j]})
                  >= Cardinality(AcceptedWithout(key))

\* C23: all the returned records of one ticker carry the same Max_Drawdown,
\* Sharpe_Ratio, Value_at_Risk_5, Return_Skewness and Return_Kurtosis
C23_RiskFieldsBroadcast ==
    Returned => \A i, j \in 1..Len(Output) :
        Output[i]["Ticker"] = Output[j]["Ticker"]
            => Restricted(Output[i], RiskKeys) = Restricted(Output[j], RiskKeys)

C23_Witness ==
    /\ RiskReturned
    /\ \E i, j, l \in 1..Len(Output) :
          /\ Output[i]["Ticker"] = Output[j]["Ticker"]
          /\ Output[i]["Ticker"] # Output[l]["Ticker"]
          /\ Output[i]["Date"] # Output[j]["Date"]
          /\ Output[i]["Daily_Return"] # Output[j]["Daily_Return"]
          /\ Output[i]["Value_at_Risk_5"].k = "float"
          /\ Output[i]["Return_Kurtosis"].k = "real"
          /\ Restricted(Output[i], RiskKeys) = Restricted(Output[j], RiskKeys)
          /\ Restricted(Output[i], RiskKeys) # Restricted(Output[l], RiskKeys)

\* the places of transform_data in the order of its statements
PhaseRank(p) ==
    CASE p = "start" -> 0
      [] p = "cleaned" -> 1
      [] p = "basic" -> 2
      [] p = "time_series" -> 3
      [] p = "sector" -> 4
      [] p = "risk" -> 5
      [] p = "stamped" -> 6
      [] p = "done" -> 7

\* C24: the phases of one call run in the order validation, basic metrics,
\* time series, sector analysis, risk metrics, safety pass (a failure ends
\* the call at once); the sector phase starts from the records of the
\* finished time-series phase, and what is returned is what
\* ensure_json_serializable made of the records of the last phase
C24_PhasesInOrder ==
    [][/\ pc' # pc => pc' = "done" \/ PhaseRank(pc') = PhaseRank(pc) + 1
       /\ pc' = "sector" =>
             /\ pc = "time_series"
             /\ config.enable_technical_indicators /\ Len(records) > ma_short_period
                   => \A i \in 1..Len(records) : TimeSeriesKeys \subseteq DOMAIN records[i]
             /\ records' = IF config.enable_sector_analysis
                           THEN calculate_sector_analysis(records)
                           ELSE records
       /\ pc' = "done" /\ response'.status = 200 =>
             /\ pc = "stamped"
             /\ response'.body.data = EnsureRecords(records)]_vars

C24_Witness ==
    /\ Returned
    /\ config.enable_technical_indicators
    /\ config.enable_sector_analysis
    /\ config.enable_risk_metrics
    /\ Len(Output) > ma_short_period
    /\ Output # records
    /\ \A i \in 1..Len(Output) :
          TimeSeriesKeys \cup SectorKeys \cup RiskKeys \subseteq DOMAIN Output[i]

\* a UTC ISO-8601 timestamp: a date, a time and the designator Z, no offset
IsUTCTimestamp(x) == x.k = "date" /\ x.v[2] = "zulu"

\* C25: every record leaving clean_and_standardize has a Date that is a UTC
\* ISO-8601 timestamp, whatever the Date of the input was
C25_DateIsUTCTimestamp ==
    pc = "cleaned" => \A i \in 1..Len(records) : IsUTCTimestamp(records[i]["Date"])

\* the ticker, the date, the prices and the volume of a record
CoreKeys == {"Ticker", "Date", "Open", "High", "Low", "Close", "Volume"}
Core(r) == [key \in CoreKeys |-> r[key]]

\* how many records of recs have the core x
CountOf(recs, x) == Cardinality({i \in 1..Len(recs) : Core(recs[i]) = x})

\* C26: the returned records are the accepted records, each one once (the
\* same ticker, date, prices and volume as many times as accepted);
\* records_processed is the number of accepted elements of raw_data and
\* records_cleaned the number of rejected ones
C26_RecordsConserved ==
    Returned =>
        \A cleaned \in {clean_and_standardize(RawRecords)} :
            /\ Len(Output) = Len(cleaned)
            /\ \A i \in 1..Len(cleaned) :
                  CountOf(Output, Core(cleaned[i])) = CountOf(cleaned, Core(cleaned[i]))
            /\ response.body.records_processed = Cardinality(Accepted)
            /\ response.body.records_cleaned = Cardinality(Rejected)

\* an element of raw_data with the five required fields, prices > 0,
\* Volume >= 0, a consistent OHLC ordering, a Ticker that matches after trim
\* and uppercase, and a Date that is a string or is not there
WellFormed(el) ==
    /\ el.k = "dict"
    /\ PriceKeys \cup {"Volume"} \subseteq DOMAIN el.v
    /\ \A key \in PriceKeys : el.v[key].k = "float" /\ el.v[key].v > 0
    /\ el.v["Volume"].k = "int" /\ el.v["Volume"].v >= 0
    /\ el.v["Low"].v <= el.v["Open"].v /\ el.v["Open"].v <= el.v["High"].v
    /\ el.v["Low"].v <= el.v["Close"].v /\ el.v["Close"].v <= el.v["High"].v
    /\ "Ticker" \in DOMAIN el.v
    /\ el.v["Ticker"].k = "str"
    /\ MatchesSymbol(Upper(Strip(el.v["Ticker"].v)))
    /\ "Date" \in DOMAIN el.v => el.v["Date"].k \in {"date", "str"}

\* C27: every such element is accepted by clean_and_standardize, whatever
\* its optional fields are
C27_WellFormedAccepted ==
    IsListRequest => \A i \in 1..Len(RawRecords) : WellFormed(RawRecords[i]) => i \in Accepted

----------------------------------------------------------------------------
(* ensure_json_serializable on its own, called on its own result *)

MaxNesting == 2

\* the scalars of JSON-shaped data
JsonLeaves ==
    {None, PyBool(TRUE), PyBool(FALSE), PyInt(3), PyFloat(123456), NaN,
     PosInf, NegInf, Str("x")}

\* dicts, lists and scalars nested up to n levels
RECURSIVE JsonValues(_)
JsonValues(n) ==
    IF n = 0 THEN JsonLeaves
    ELSE LET inner == JsonValues(n - 1)
         IN  JsonLeaves
             \cup {List(<<>>), Dict([key \in {} |-> None])}
             \cup {List(<<a>>) : a \in inner}
             \cup {List(<<a, b>>) : a \in JsonLeaves, b \in inner}
             \cup {Dict([key \in {"a"} |-> a]) : a \in inner}
             \cup {Dict([key \in {"a", "b"} |-> IF key = "a" THEN a ELSE b]) :
                       a \in JsonLeaves, b \in inner}

\* the pass has one callee that converts, safe_float; nothing else in it
\* has a path that raises on these values
RECURSIVE EnsureRaises(_)
EnsureRaises(x) ==
    IF x.k = "dict" THEN \E key \in DOMAIN x.v : EnsureRaises(x.v[key])
    ELSE IF x.k = "list" THEN \E i \in 1..Len(x.v) : EnsureRaises(x.v[i])
    ELSE IF IsFloat(x) \/ x.k = "bigfloat" THEN SafeFloatRaises(x)
    ELSE FALSE

EnsureCall(x) ==
    IF EnsureRaises(x)
    THEN [status |-> "raised", error |-> "float"]
    ELSE [status |-> "returned", value |-> ensure_json_serializable(x)]

InitEnsure ==
    /\ data \in [value : JsonValues(MaxNesting)]
    /\ config = DefaultConfig
    /\ pc = "call"
    /\ records = <<>>
    /\ response = NoResponse
    /\ now = 0
    /\ calls = 0
    /\ first_response = NoResponse
    /\ job_status = JobStatusAtImport
    /\ runs = <<>>

\* ensure_json_serializable(x)
CallEnsure ==
    /\ pc = "call"
    /\ response' = EnsureCall(data.value)
    /\ first_response' = response'
    /\ calls' = 1
    /\ pc' = IF response'.status = "returned" THEN "once" ELSE "failed"
    /\ UNCHANGED scheduler_vars
    /\ UNCHANGED <<data, config, records, now>>

\* ensure_json_serializable(ensure_json_serializable(x))
CallEnsureAgain ==
    /\ pc = "once"
    /\ response' = EnsureCall(first_response.value)
    /\ calls' = 2
    /\ pc' = IF response'.status = "returned" THEN "twice" ELSE "failed"
    /\ UNCHANGED scheduler_vars
    /\ UNCHANGED <<data, config, records, now, first_response>>

NextEnsure == CallEnsure \/ CallEnsureAgain

SpecEnsure == InitEnsure /\ [][NextEnsure]_vars

\* y has the structure of x: the keys of every dict, the length and order of
\* every list, and at each leaf what the pass makes of that leaf
RECURSIVE SameStructure(_, _)
SameStructure(x, y) ==
    CASE x.k = "dict" ->
            /\ y.k = "dict"
            /\ DOMAIN y.v = DOMAIN x.v
            /\ \A key \in DOMAIN x.v : SameStructure(x.v[key], y.v[key])
      [] x.k = "list" ->
            /\ y.k = "list"
            /\ Len(y.v) = Len(x.v)
            /\ \A i \in 1..Len(x.v) : SameStructure(x.v[i], y.v[i])
      [] x.k \in {"none", "str", "int"} -> y = x
      [] x.k = "bool" -> y = PyInt(x.v)
      [] x.k = "float" -> IsRounded4(y, x)
      [] OTHER -> y = Zero

\* C28: on nested dicts, lists, strings, booleans, ints, floats (NaN and
\* the infinities included) and None, ensure_json_serializable returns
\* without raising, keeps the keys of every dict and the length and order of
\* every list, and applied to its own result returns that result again
C28_IdempotentAndTotal ==
    /\ pc # "failed"
    /\ pc \in {"once", "twice"} =>
          /\ first_response.status = "returned"
          /\ SameStructure(data.value, first_response.value)
    /\ pc = "twice" =>
          /\ response.status = "returned"
          /\ response.value = first_response.value

\* a nested value the first pass changes (a bool, a NaN and an unrounded
\* float inside a dict inside a list), passed through twice
C28_Witness ==
    /\ pc = "twice"
    /\ data.value.k = "list"
    /\ Len(data.value.v) = 2
    /\ data.value.v[1].k = "bool"
    /\ data.value.v[2].k = "dict"
    /\ DOMAIN data.value.v[2].v = {"a", "b"}
    /\ data.value.v[2].v["a"].k = "nan"
    /\ data.value.v[2].v["b"] = PyFloat(123456)
    /\ first_response.value # data.value
    /\ response.value = first_response.value

----------------------------------------------------------------------------
(* The scheduler service (services/scheduler/app.py): executions of         *)
(* trigger_data_update by the scheduler thread and by the threads that      *)
(* /trigger starts, interleaved on the one job_status dict.  Nothing in     *)
(* the file locks job_status.  An execution is a record: thread, at (the    *)
(* statement it is about to run), services_triggered, the values it has     *)
(* read, and when it has returned its outcome and its place in the order    *)
(* of returns.                                                              *)

MaxRuns == 3
MaxErrors == 10

Executions == 1..MaxRuns

NotStarted == [at |-> "new"]

\* errors left by earlier executions that raised, one after the other: none,
\* or a list one short of the limit, or a full one
EarlierErrors == {0, MaxErrors - 1, MaxErrors}

InitScheduler ==
    /\ \E n \in EarlierErrors :
          job_status = [last_run |-> 0,
                        status |-> IF n = 0 THEN "initialized" ELSE "error",
                        runs_count |-> 0,
                        errors |-> [i \in 1..n |-> 0]]
    /\ runs = [e \in Executions |-> NotStarted]
    /\ data = [value |-> None]
    /\ config = DefaultConfig
    /\ pc = "serving"
    /\ records = <<>>
    /\ response = NoResponse
    /\ now = 0
    /\ calls = 0
    /\ first_response = NoResponse

InProgress(e) == runs[e].at \notin {"new", "returned"}
HasReturned(e) == runs[e].at = "returned"

\* the execution goes on to its next statement
Goto(e, place) == runs' = [runs EXCEPT ![e].at = place]

\* the execution returns: what it made of the update, and after which others
Return(e, result) ==
    runs' = [runs EXCEPT ![e].at = "returned", ![e].outcome = result,
                         ![e].rank = Cardinality({o \in Executions : HasReturned(o)}) + 1]

\* line 33, the first statement of an execution
Begin(e, thread) ==
    /\ runs[e].at = "new"
    /\ job_status' = [job_status EXCEPT !.status = "running"]
    /\ runs' = [runs EXCEPT ![e] =
                  [at |-> "load", thread |-> thread, services_triggered |-> 0,
                   runs_count |-> 0, errors |-> <<>>, outcome |-> "none",
                   rank |-> 0]]

\* schedule.run_pending() in the scheduler thread calls trigger_data_update
\* and waits for it: that thread has one execution at a time
ScheduledRun(e) ==
    /\ \A o \in Executions : InProgress(o) => runs[o].thread # "scheduler"
    /\ Begin(e, "scheduler")
    /\ UNCHANGED <<data, config, pc, records, response, now, calls, first_response>>

\* GET /trigger starts a thread of its own for the execution
manual_trigger(e) ==
    /\ Begin(e, "manual")
    /\ UNCHANGED <<data, config, pc, records, response, now, calls, first_response>>

\* what a call of a service comes to: the status the update counts, another
\* status or a RequestException (caught next to the call), or any other
\* exception, which leaves the try block
CallOutcomes == {"ok", "refused", "raised"}

\* lines 38-51 (at = "load") and 54-65 (at = "refresh")
CallService(e, place, next) ==
    /\ runs[e].at = place
    /\ \E result \in CallOutcomes :
          runs' = [runs EXCEPT
                     ![e].at = IF result = "raised" THEN "except" ELSE next,
                     ![e].services_triggered =
                         IF result = "ok" THEN @ + 1 ELSE @]
    /\ UNCHANGED <<job_status, data, config, pc, records, response, now, calls,
                   first_response>>

LoadService(e) == CallService(e, "load", "refresh")
VisualizationService(e) == CallService(e, "refresh", "stamp")

\* line 68
StampLastRun(e) ==
    /\ runs[e].at = "stamp"
    /\ job_status' = [job_status EXCEPT !.last_run = e]
    /\ Goto(e, "read")
    /\ UNCHANGED <<data, config, pc, records, response, now, calls, first_response>>

\* line 69, job_status["runs_count"] += 1: the item is read ...
ReadRunsCount(e) ==
    /\ runs[e].at = "read"
    /\ runs' = [runs EXCEPT ![e].at = "write",
                            ![e].runs_count = job_status.runs_count]
    /\ UNCHANGED <<job_status, data, config, pc, records, response, now, calls,
                   first_response>>

\* ... and what was read, plus one, is stored
WriteRunsCount(e) ==
    /\ runs[e].at = "write"
    /\ job_status' = [job_status EXCEPT !.runs_count = runs[e].runs_count + 1]
    /\ Goto(e, "status")
    /\ UNCHANGED <<data, config, pc, records, response, now, calls, first_response>>

\* lines 71-79
StatusOf(services_triggered) ==
    IF services_triggered >= 2 THEN "completed"
    ELSE IF services_triggered > 0 THEN "partial"
    ELSE "error"

SetStatus(e) ==
    /\ runs[e].at = "status"
    /\ job_status' = [job_status EXCEPT
                         !.status = StatusOf(runs[e].services_triggered)]
    /\ Return(e, StatusOf(runs[e].services_triggered))
    /\ UNCHANGED <<data, config, pc, records, response, now, calls, first_response>>

\* line 83
ExceptStatus(e) ==
    /\ runs[e].at = "except"
    /\ job_status' = [job_status EXCEPT !.status = "error"]
    /\ Goto(e, "append")
    /\ UNCHANGED <<data, config, pc, records, response, now, calls, first_response>>

\* lines 84-87; list.append is one step of the interpreter
AppendError(e) ==
    /\ runs[e].at = "append"
    /\ job_status' = [job_status EXCEPT !.errors = Append(@, e)]
    /\ Goto(e, "trim")
    /\ UNCHANGED <<data, config, pc, records, response, now, calls, first_response>>

\* errors[-10:]
LastErrors(errors) ==
    IF Len(errors) <= MaxErrors THEN errors
    ELSE SubSeq(errors, Len(errors) - MaxErrors + 1, Len(errors))

\* lines 89-90: the length is tested and the slice taken ...
SliceErrors(e) ==
    /\ runs[e].at = "trim"
    /\ IF Len(job_status.errors) > MaxErrors
       THEN runs' = [runs EXCEPT ![e].at = "assign",
                                 ![e].errors = LastErrors(job_status.errors)]
       ELSE Return(e, "raised")
    /\ UNCHANGED <<job_status, data, config, pc, records, response, now, calls,
                   first_response>>

\* ... and the slice is stored
AssignErrors(e) ==
    /\ runs[e].at = "assign"
    /\ job_status' = [job_status EXCEPT !.errors = runs[e].errors]
    /\ Return(e, "raised")
    /\ UNCHANGED <<data, config, pc, records, response, now, calls, first_response>>

\* the statements of trigger_data_update after its first
trigger_data_update(e) ==
    \/ LoadService(e)
    \/ VisualizationService(e)
    \/ StampLastRun(e)
    \/ ReadRunsCount(e)
    \/ WriteRunsCount(e)
    \/ SetStatus(e)
    \/ ExceptStatus(e)
    \/ AppendError(e)
    \/ SliceErrors(e)
    \/ AssignErrors(e)

NextScheduler ==
    \E e \in Executions :
        \/ ScheduledRun(e)
        \/ manual_trigger(e)
        \/ trigger_data_update(e)

SpecScheduler == InitScheduler /\ [][NextScheduler]_vars

SomeInProgress == \E e \in Executions : InProgress(e)

\* the executions that returned, and the one that returned last
ReturnedRuns == {e \in Executions : HasReturned(e)}
LastReturned == CHOOSE e \in ReturnedRuns : runs[e].rank = Cardinality(ReturnedRuns)

\* the status an execution leaves when no other interferes
FinalStatus(e) == IF runs[e].outcome = "raised" THEN "error" ELSE runs[e].outcome

\* an execution that has not yet stored the status it ends with
Working(e) ==
    runs[e].at \in {"load", "refresh", "stamp", "read", "write", "status", "except"}

\* C29: job_status["status"] is "running" whenever an execution of
\* trigger_data_update is in progress (has begun and not yet stored the
\* status it ends with), and when none is in progress it is the status
\* ("completed", "partial" or "error") of the execution that returned last
C29_StatusFollowsRuns ==
    /\ (\E e \in Executions : Working(e)) => job_status.status = "running"
    /\ (~SomeInProgress /\ ReturnedRuns # {}) =>
           job_status.status = FinalStatus(LastReturned)

\* the executions that came through both service calls and have stored
\* their increment
Counted ==
    {e \in Executions : runs[e].at \in {"status", "returned"}
                          /\ (HasReturned(e) => runs[e].outcome # "raised")}

\* no execution is between its service calls and the store of its increment
NoneCounting ==
    \A e \in Executions : runs[e].at \notin {"stamp", "read", "write"}

\* errors holds at most 10 entries once the executions have returned
ErrorsBounded == ~SomeInProgress => Len(job_status.errors) <= MaxErrors

\* C30: runs_count is the number of executions that completed their service
\* calls without an unexpected exception, also when a manual and a
\* scheduled one increment it at the same time; errors holds at most 10
\* entries once the executions have returned
C30_RunsCountedErrorsBounded ==
    /\ NoneCounting => job_status.runs_count = Cardinality(Counted)
    /\ ErrorsBounded

====
